---- MODULE Spec2Model ----
(***************************************************************************)
(* Model of the req_scrapers project:                                      *)
(*   - the proxy pool of ComprehensiveAntiDetectionMiddleware              *)
(*     (comprehensive_middleware.py), specification SpecPool;              *)
(*   - the JSF navigation state machine of CtqScraperSpider                *)
(*     (spiders/ctq_scraper.py), specification Spec.                       *)
(***************************************************************************)
EXTENDS Integers, Sequences, FiniteSets, Bags, TLC

(***************************************************************************)
(* Bounds of the model.                                                    *)
(***************************************************************************)
\* most requests between process_request and process_response/exception
MaxInFlight == 2
\* number of clock advances in a run
MaxTicks == 2
\* seconds by which one clock advance moves time.time()
TickSeconds == 600
\* longest inline NEQ list (the neqs argument)
MaxInline == 2
\* longest NEQ list of req_scraper's input file
MaxNeqList == 2
\* most resubmissions of one request that a run of the model follows
MaxResubmits == 4

(***************************************************************************)
(* Values.                                                                 *)
(***************************************************************************)
None == "None"
ProxyNames == {"p1", "p2"}

RECURSIVE SeqsUpTo(_, _)
SeqsUpTo(S, n) ==
    IF n = 0 THEN {<<>>}
    ELSE LET shorter == SeqsUpTo(S, n - 1)
         IN  shorter \cup {Append(s, x) : s \in {q \in shorter : Len(q) = n - 1}, x \in S}

Range(s) == {s[i] : i \in 1..Len(s)}

\* the lists load_proxies can produce: non-empty stripped strings, repeats
\* allowed; an absent proxies.json leaves the list empty
Pools == {<<>>, <<"p1">>, <<"p1", "p1">>, <<"p1", "p2">>, <<"p1", "p2", "p1">>}

\* the proxy lists of the runs whose progress is checked
FairPools == {<<"p1", "p2">>}

\* the proxy lists req_scraper is run with
ReqPools == {<<>>, <<"p1">>, <<"p1", "p2">>}

\* response statuses the downloader can hand to the middleware
Statuses == {200, 403, 429, 500, 502, 503, 504}

(***************************************************************************)
(* Program constants of the middleware.                                    *)
(***************************************************************************)
\* if stats['consecutive_errors'] >= 3
ErrorThreshold == 3
\* self.put_proxy_to_sleep(proxy, 10)
SleepMinutes == 10
\* sleep_seconds = sleep_minutes * 60
SecondsPerMinute == 60
\* faulty variant: the gateway statuses 502 and 504 are not counted as failures
BlockingStatuses_without_gateway == {403, 429, 503}

\* if response.status in [403, 429, 503, 502, 504]
BlockingStatuses == {403, 429, 503, 502, 504}

VARIABLES
    \* ---- ComprehensiveAntiDetectionMiddleware ----
    proxy_list,            \* self.proxy_list (proxies.json)
    proxy_stats,           \* self.proxy_stats: proxy -> health state
    current_proxy_index,   \* self.current_proxy_index
    now,                   \* time.time()
    ticks,                 \* clock advances so far
    inflight,              \* request.meta['current_proxy'] of the requests being downloaded
    last,                  \* the last middleware call: its name, proxy, status and whether it reset the pool
    streak503,             \* per proxy: 503 responses in a row, 3 once three in a row were seen
    \* ---- CtqScraperSpider ----
    neqs,                  \* self.neqs: what the NEQ generator has still to yield
    ctq_proxy_index,       \* CtqScraperSpider.current_proxy_index
    total_requests,        \* self.total_requests
    errors,                \* self.errors
    requests,              \* bag of the requests scheduled or being downloaded
    items,                 \* the records yielded so far, in order
    issued,                \* per NEQ: the callbacks of the requests issued for it, in order
    landing,               \* per NEQ: what an observer saw on the landing page it received
    validity,              \* per NEQ: what an observer saw on the validity page it received
    vrac_table,            \* per NEQ: the four cells of the VRAC page it received
    extras,                \* per NEQ: the extra values an observer read on its validity page
    failed,                \* per NEQ: "no", or how a request of it failed first: "transport", "status"
    logged,                \* per NEQ: the levels of the log entries of the last callback run for it
    args,                  \* the neqs, file and start_neq arguments of the run, where recorded
    \* ---- the downloader between CtqScraperSpider and the middleware ----
    session_cookies,       \* proxy_stats[proxy]['session_cookies']
    wire,                  \* the requests being downloaded: NEQ, current_proxy, cookies
    \* ---- ReqScraperSpider ----
    neq_list,              \* self.neq_list: what start_requests has still to yield
    req_proxy_index,       \* ReqScraperSpider.current_proxy_index
    use_residential_proxy, \* self.use_residential_proxy
    req_total_requests,    \* self.total_requests
    req_errors,            \* self.errors
    req_requests,          \* the requests scheduled or being downloaded
    req_items,             \* the records yielded so far, in order
    ctq_outcome,           \* what the last CTQ page delivered to a callback showed
    \* ---- the helper functions called on their own ----
    call,                  \* the last call: the function and its arguments
    result                 \* what the call returned

poolVars == <<proxy_stats, current_proxy_index, now, ticks, inflight, last, streak503>>

ctqVars == <<neqs, ctq_proxy_index, total_requests, errors, requests, items, issued,
             landing, validity, vrac_table, extras, failed, logged, args>>

sessionVars == <<session_cookies, wire>>

reqVars == <<neq_list, req_proxy_index, use_residential_proxy, req_total_requests,
             req_errors, req_requests, req_items, ctq_outcome>>

callVars == <<call, result>>

vars == <<proxy_list, poolVars, ctqVars, sessionVars, reqVars, callVars>>

\* no helper function has been called
CallIdle ==
    /\ call = [fn |-> "none"]
    /\ result = None

(***************************************************************************)
(* ComprehensiveAntiDetectionMiddleware                                    *)
(***************************************************************************)
\* defaultdict factory of proxy_stats (the fields that drive proxy selection)
DefaultStats == [consecutive_errors |-> 0, sleep_until |-> 0]

\* faulty variant: the loop forgets to skip proxies with too many errors
Available_ignoring_errors(list, stats, t) ==
    {i \in 0..(Len(list) - 1) : ~(stats[list[i + 1]].sleep_until > t)}

\* faulty variant: the loop forgets to skip sleeping proxies
Available_ignoring_sleep(list, stats, t) ==
    {i \in 0..(Len(list) - 1) :
        ~(stats[list[i + 1]].consecutive_errors >= 3)}

\* the loop of get_available_proxy that collects available_proxies
Available(list, stats, t) ==
    {i \in 0..(Len(list) - 1) :
        /\ ~(stats[list[i + 1]].sleep_until > t)
        /\ ~(stats[list[i + 1]].consecutive_errors >= ErrorThreshold)}

\* faulty variant: the reset clears the error counters and leaves the cooldowns
ResetAll_errors_only(stats) ==
    [p \in DOMAIN stats |-> [stats[p] EXCEPT !.consecutive_errors = 0]]

\* "reset all": for proxy in self.proxy_stats: consecutive_errors = 0; sleep_until = 0
ResetAll(stats) ==
    [p \in DOMAIN stats |-> [stats[p] EXCEPT !.consecutive_errors = 0, !.sleep_until = 0]]

\* available_proxies = [0]
FallbackAvailable == {0}

Diverged == -1

\* while self.current_proxy_index not in available_proxies: advance the cursor.
\* After n advances the cursor has visited every index: without a hit the loop
\* never ends, which the model reports as Diverged.
RECURSIVE ScanCursor(_, _, _, _)
ScanCursor(i, avail, n, fuel) ==
    IF i \in avail THEN i
    ELSE IF fuel = 0 THEN Diverged
    ELSE ScanCursor((i + 1) % n, avail, n, fuel - 1)

get_available_proxy(list, stats, idx, t) ==
    IF Len(list) = 0
    THEN [ret |-> None, stats |-> stats, index |-> idx, reset |-> FALSE]
    ELSE LET found  == Available(list, stats, t)
             reset  == found = {}
             stats1 == IF reset THEN ResetAll(stats) ELSE stats
             avail  == IF reset THEN FallbackAvailable ELSE found
             idx1   == ScanCursor((idx + 1) % Len(list), avail, Len(list), Len(list))
         IN  [ret   |-> IF idx1 = Diverged THEN "diverged" ELSE list[idx1 + 1],
              stats |-> stats1,
              index |-> idx1,
              reset |-> reset]

\* put_proxy_to_sleep(proxy, sleep_minutes)
put_proxy_to_sleep(stats, proxy, sleep_minutes, t) ==
    [stats EXCEPT ![proxy].sleep_until = t + sleep_minutes * SecondsPerMinute]

\* faulty variant: the cursor advances without wrapping around
rotate_to_next_proxy_without_wrap(idx, list) == idx + 1

\* rotate_to_next_proxy
rotate_to_next_proxy(idx, list) == (idx + 1) % Len(list)

InFlightTotal == inflight[None] + inflight["p1"] + inflight["p2"]

\* the record of a middleware call: its name, the proxy it returned or was
\* attributed to, the response status, whether it reset the pool and, for
\* process_request, what the pool looked like at the moment of the call:
\* cooling = the returned entry's sleep_until was in the future,
\* awake = number of pool entries whose sleep_until was not in the future
Call(op, proxy, status, reset, cooling, awake) ==
    [op |-> op, proxy |-> proxy, status |-> status, reset |-> reset,
     cooling |-> cooling, awake |-> awake]

Cooling(stats, proxy, t) == stats[proxy].sleep_until > t

Awake(list, stats, t) == Cardinality({i \in 1..Len(list) : ~Cooling(stats, list[i], t)})

\* process_request: draw a proxy and route the request through it.  A call of
\* get_available_proxy that never returns hangs the (single-threaded) process.
process_request ==
    /\ last.op # "hung"
    /\ InFlightTotal < MaxInFlight
    /\ LET g == get_available_proxy(proxy_list, proxy_stats, current_proxy_index, now)
       IN  IF g.ret = "diverged"
           THEN /\ last' = Call("hung", None, 0, g.reset, FALSE, 0)
                /\ proxy_stats' = g.stats
                /\ UNCHANGED <<current_proxy_index, inflight>>
           ELSE /\ proxy_stats' = g.stats
                /\ current_proxy_index' = g.index
                /\ inflight' = [inflight EXCEPT ![g.ret] = @ + 1]
                /\ last' = Call("process_request", g.ret, 0, g.reset,
                                g.ret # None /\ Cooling(proxy_stats, g.ret, now),
                                Awake(proxy_list, proxy_stats, now))
    /\ UNCHANGED <<callVars, proxy_list, now, ticks, streak503, ctqVars, sessionVars, reqVars>>

\* observer of the responses attributed to one proxy: the number of 503
\* responses in a row; once three in a row have been seen it stays at three
Streak(n, is503) ==
    IF n = 3 THEN 3
    ELSE IF is503 THEN n + 1
    ELSE 0

\* faulty variant: a failure is counted but the proxy is not put to sleep
ResponseStats_without_sleep(stats, proxy, status, t) ==
    IF status \in BlockingStatuses
    THEN [stats EXCEPT ![proxy].consecutive_errors = @ + 1]
    ELSE [stats EXCEPT ![proxy].consecutive_errors = 0]

\* faulty variant: only a status 200 resets the consecutive errors
ResponseStats_reset_on_200_only(stats, proxy, status, t) ==
    IF status \in BlockingStatuses
    THEN put_proxy_to_sleep([stats EXCEPT ![proxy].consecutive_errors = @ + 1],
                            proxy, SleepMinutes, t)
    ELSE IF status = 200 THEN [stats EXCEPT ![proxy].consecutive_errors = 0]
    ELSE stats

\* the health update of process_response for the proxy in request.meta
ResponseStats(stats, proxy, status, t) ==
    IF status \in BlockingStatuses
    THEN put_proxy_to_sleep([stats EXCEPT ![proxy].consecutive_errors = @ + 1],
                            proxy, SleepMinutes, t)
    ELSE [stats EXCEPT ![proxy].consecutive_errors = 0]

\* the cursor after process_response
ResponseIndex(idx, list, status) ==
    IF status \in BlockingStatuses THEN rotate_to_next_proxy(idx, list) ELSE idx

process_response ==
    \E proxy \in ProxyNames \cup {None}, status \in Statuses :
        /\ last.op # "hung"
        /\ inflight[proxy] > 0
        /\ inflight' = [inflight EXCEPT ![proxy] = @ - 1]
        /\ last' = Call("process_response", proxy, status, FALSE, FALSE, 0)
        /\ IF proxy = None
           THEN UNCHANGED <<proxy_stats, current_proxy_index, streak503>>
           ELSE /\ proxy_stats' = ResponseStats(proxy_stats, proxy, status, now)
                /\ current_proxy_index' = ResponseIndex(current_proxy_index, proxy_list, status)
                /\ streak503' = [streak503 EXCEPT ![proxy] = Streak(@, status = 503)]
        /\ UNCHANGED <<callVars, proxy_list, now, ticks, ctqVars, sessionVars, reqVars>>

\* the health update of process_exception for the proxy in request.meta
ExceptionStats(stats, proxy, t) ==
    put_proxy_to_sleep([stats EXCEPT ![proxy].consecutive_errors = @ + 1],
                       proxy, SleepMinutes, t)

process_exception ==
    \E proxy \in ProxyNames \cup {None} :
        /\ last.op # "hung"
        /\ inflight[proxy] > 0
        /\ inflight' = [inflight EXCEPT ![proxy] = @ - 1]
        /\ last' = Call("process_exception", proxy, 0, FALSE, FALSE, 0)
        /\ IF proxy = None
           THEN UNCHANGED <<proxy_stats, current_proxy_index, streak503>>
           ELSE /\ proxy_stats' = ExceptionStats(proxy_stats, proxy, now)
                /\ current_proxy_index' = rotate_to_next_proxy(current_proxy_index, proxy_list)
                /\ streak503' = [streak503 EXCEPT ![proxy] = Streak(@, FALSE)]
        /\ UNCHANGED <<callVars, proxy_list, now, ticks, ctqVars, sessionVars, reqVars>>

\* time.time() moves on
Tick ==
    /\ last.op # "hung"
    /\ ticks < MaxTicks
    /\ ticks' = ticks + 1
    /\ now' = now + TickSeconds
    /\ UNCHANGED <<callVars, proxy_list, proxy_stats, current_proxy_index, inflight, last, streak503, ctqVars, sessionVars, reqVars>>

\* ComprehensiveAntiDetectionMiddleware.__init__
MiddlewareInit ==
    /\ proxy_stats = [p \in Range(proxy_list) |-> DefaultStats]
    /\ current_proxy_index = 0
    /\ now = 0
    /\ ticks = 0
    /\ inflight = [p \in ProxyNames \cup {None} |-> 0]
    /\ last = Call("init", None, 0, FALSE, FALSE, 0)
    /\ streak503 = [p \in ProxyNames |-> 0]

(***************************************************************************)
(* CtqScraperSpider: input                                                 *)
(***************************************************************************)
Neqs == {"n1", "n2"}

\* the pieces of the neqs argument after split(",") and strip()
InlinePieces == Neqs \cup {""}

\* inline_neqs = [n for n in inline_neqs if n]
RECURSIVE NonEmpty(_)
NonEmpty(s) ==
    IF s = <<>> THEN <<>>
    ELSE IF Head(s) = "" THEN NonEmpty(Tail(s))
    ELSE <<Head(s)>> \o NonEmpty(Tail(s))

\* faulty variant: the generator does not skip the values it has seen
RECURSIVE generator_without_dedup(_, _, _)
generator_without_dedup(source, seen, start_pending) ==
    IF source = <<>> THEN <<>>
    ELSE LET val == Head(source)
             rest == Tail(source)
         IN  IF val = "" THEN generator_without_dedup(rest, seen, start_pending)
             ELSE IF start_pending # None /\ val # start_pending
                  THEN generator_without_dedup(rest, seen \cup {val}, start_pending)
             ELSE <<val>> \o generator_without_dedup(rest, seen \cup {val}, None)

\* faulty variant: only a value equal to the previous one is skipped
RECURSIVE generator_dedup_adjacent(_, _, _)
generator_dedup_adjacent(source, seen, start_pending) ==
    IF source = <<>> THEN <<>>
    ELSE LET val == Head(source)
             rest == Tail(source)
         IN  IF val = "" THEN generator_dedup_adjacent(rest, seen, start_pending)
             ELSE IF val \in seen THEN generator_dedup_adjacent(rest, seen, start_pending)
             ELSE IF start_pending # None /\ val # start_pending
                  THEN generator_dedup_adjacent(rest, {val}, start_pending)
             ELSE <<val>> \o generator_dedup_adjacent(rest, {val}, None)

\* the generator() of _iter_neq_values run over the remaining source values
RECURSIVE generator(_, _, _)
generator(source, seen, start_pending) ==
    IF source = <<>> THEN <<>>
    ELSE LET val == Head(source)
             rest == Tail(source)
         IN  IF val = "" THEN generator(rest, seen, start_pending)
             ELSE IF val \in seen THEN generator(rest, seen, start_pending)
             ELSE IF start_pending # None /\ val # start_pending
                  THEN generator(rest, seen \cup {val}, start_pending)
             ELSE <<val>> \o generator(rest, seen \cup {val}, None)

\* faulty variant: the file is read before the inline values
_iter_neq_values_file_first(inline_neqs, file_neqs, start_neq) ==
    generator(file_neqs \o inline_neqs, {}, start_neq)

\* _iter_neq_values: inline values first, then the values of the file
_iter_neq_values(inline_neqs, file_neqs, start_neq) ==
    generator(inline_neqs \o file_neqs, {}, start_neq)

\* faulty variant: the start NEQ is looked up in the inline values only
StartNeqClean_inline_only(inline_neqs, file_neqs, start_neq) ==
    IF start_neq # None /\ start_neq \in Range(inline_neqs)
    THEN start_neq
    ELSE None

\* __init__: the start NEQ is kept only if it occurs in a source
StartNeqClean(inline_neqs, file_neqs, start_neq) ==
    IF start_neq # None /\ start_neq \in Range(inline_neqs) \cup Range(file_neqs)
    THEN start_neq
    ELSE None

\* CtqScraperSpider.__init__: self.neqs
SpiderNeqs(pieces, file_neqs, start_neq) ==
    LET inline_neqs == NonEmpty(pieces)
    IN  _iter_neq_values(inline_neqs, file_neqs,
                         StartNeqClean(inline_neqs, file_neqs, start_neq))

(***************************************************************************)
(* CtqScraperSpider: requests, pages and callbacks                         *)
(***************************************************************************)
\* every callback writes an info entry with the status when it is entered, and
\* a warning when the status is not 200
status_logs(page) == {"info"} \cup (IF page.status # 200 THEN {"warning"} ELSE {})

\* parse_initial: a warning too when the form or the view state is missing
parse_initial_logs(page) ==
    {"info"} \cup (IF page.status # 200 \/ ~page.form \/ page.view_state \in {None, ""}
                   THEN {"warning"} ELSE {})

\* check_validity: a warning when the status is not 200 or the body is empty;
\* the returns after them (form action, "Erreur(s)", NEQ) write nothing
check_validity_logs(page) ==
    {"info"} \cup (IF page.status # 200 \/ ~page.body THEN {"warning"} ELSE {})

\* a scheduled request: its callback and the meta and payload it carries
Request(neq, cookiejar, callback, viewstate, has_vrac, ctq_action, ctq_formdata, extra_values, vrac_data, proxy) ==
    [neq |-> neq, cookiejar |-> cookiejar, callback |-> callback,
     viewstate |-> viewstate, has_vrac |-> has_vrac, ctq_action |-> ctq_action,
     ctq_formdata |-> ctq_formdata, extra_values |-> extra_values,
     vrac_data |-> vrac_data, proxy |-> proxy]

NoVrac == <<"", "", "", "">>

\* _next_proxy: the cursor after the rotation
NextIndex(idx, list) == IF Len(list) = 0 THEN idx ELSE (idx + 1) % Len(list)

\* faulty variant: the entry under the cursor, before the rotation
_next_proxy_before_rotation(idx, list) == IF Len(list) = 0 THEN None ELSE list[idx + 1]

\* _next_proxy: the entry the request is routed through (req_meta["proxy"])
_next_proxy(idx, list) == IF Len(list) = 0 THEN None ELSE list[NextIndex(idx, list) + 1]

\* what a callback hands back: the requests and the items it yields
Yield(out, item) == [out |-> out, item |-> item]

\* statuses that reach a callback: 200, another 2xx, one of handle_httpstatus_list
CallbackStatuses == {200, 204, 503}

\* the landing pages the site may answer the initial GET of NEQ n with
LandingPages(n) ==
    [status : CallbackStatuses, form : BOOLEAN,
     view_state : {None, "", "landing-" \o n}]

\* the validity pages the site may answer the search POST of NEQ n with
ValidityPages(n) ==
    [status : CallbackStatuses, body : BOOLEAN,
     view_state : {None, "validity-" \o n},
     ctq_action : {None, "/pes2/mvc/dossierclient?execution=e1s1"},
     erreur : BOOLEAN,
     match_text : Neqs \cup {None},
     extra_values : {"", "extra-" \o n},
     vrac_onclick : {None, "", "submitForm"}]

Cell(present, n, k) == IF present THEN "vrac" \o k \o "-" \o n ELSE ""

\* which of the four cells of the VRAC table have a text: all, none, the
\* first only (the registration number), the last only (the broker)
VracCells ==
    {<<TRUE, TRUE, TRUE, TRUE>>, <<FALSE, FALSE, FALSE, FALSE>>,
     <<TRUE, FALSE, FALSE, FALSE>>, <<FALSE, FALSE, FALSE, TRUE>>}

\* the VRAC pages: the cells of the table that have a text
VracPages(n) ==
    {[status |-> st,
      cells |-> <<Cell(c[1], n, "1"), Cell(c[2], n, "2"), Cell(c[3], n, "3"), Cell(c[4], n, "4")>>] :
        st \in CallbackStatuses, c \in VracCells}

\* the detail pages: the NEQ the page displays, if any
DetailPages(n) == [status : CallbackStatuses, neq : Neqs \cup {""}]

\* faulty variant: one cookie jar for the whole run
start_request_shared_jar(neq, idx, list) ==
    Request(neq, "jar", "parse_initial", None, None, None, None, "", NoVrac,
            _next_proxy(idx, list))

\* start_requests, one turn of its loop: make_request for the initial GET
start_request(neq, idx, list) ==
    Request(neq, "jar-" \o neq, "parse_initial", None, None, None, None, "", NoVrac,
            _next_proxy(idx, list))

\* faulty variant: the status of the landing page is not checked
landing_rejected_ignoring_status(page) ==
    \/ ~page.form
    \/ page.view_state \in {None, ""}

\* the early returns of parse_initial: status, mainForm, ViewState
landing_rejected(page) ==
    \/ page.status # 200
    \/ ~page.form
    \/ page.view_state \in {None, ""}

parse_initial(req, page, idx, list) ==
    IF landing_rejected(page) THEN Yield(<<>>, <<>>)
    ELSE Yield(<<Request(req.neq, req.cookiejar, "check_validity", page.view_state,
                         None, None, None, "", NoVrac, _next_proxy(idx, list))>>,
               <<>>)

\* extract_form_data(response, execution): the ViewState of the payload
extract_form_data(page, execution) ==
    IF execution \notin {None, ""} THEN execution
    ELSE IF page.view_state \notin {None, ""} THEN page.view_state
    ELSE "1"

\* faulty variant: the "Erreur(s)" marker is not looked for
validity_rejected_ignoring_erreur(req, page) ==
    \/ page.status # 200
    \/ ~page.body
    \/ page.ctq_action \in {None, ""}
    \/ page.match_text # req.neq

\* faulty variant: a page without a form action is accepted
validity_rejected_ignoring_action(req, page) ==
    \/ page.status # 200
    \/ ~page.body
    \/ page.erreur
    \/ page.match_text # req.neq

\* the early returns of check_validity: status, body, form action, "Erreur(s)"
\* marker, displayed NEQ
validity_rejected(req, page) ==
    \/ page.status # 200
    \/ ~page.body
    \/ page.ctq_action \in {None, ""}
    \/ page.erreur
    \/ page.match_text # req.neq

\* faulty variant: an anchor with an empty onclick attribute counts as a handler
vrac_branch_on_any_attribute(page) == page.vrac_onclick # None

\* if vrac_onclick: the first VRAC anchor has a non-empty onclick attribute
vrac_branch(page) == page.vrac_onclick \notin {None, ""}

\* faulty variant: a page without a view state gives an empty execution key
redirect_execution_without_fallback(view_state) ==
    IF view_state \notin {None, ""} THEN view_state ELSE ""

\* redirect_execution = view_state if view_state else "e1s2"
redirect_execution(view_state) ==
    IF view_state \notin {None, ""} THEN view_state ELSE "e1s2"

check_validity(req, page, idx, list) ==
    IF validity_rejected(req, page) THEN Yield(<<>>, <<>>)
    ELSE LET execution == redirect_execution(page.view_state)
         IN  IF vrac_branch(page)
                  THEN Yield(<<Request(req.neq, req.cookiejar, "parse_vrac_result",
                                       execution, TRUE, page.ctq_action,
                                       extract_form_data(page, execution),
                                       page.extra_values, NoVrac,
                                       _next_proxy(idx, list))>>,
                             <<>>)
                  ELSE Yield(<<Request(req.neq, req.cookiejar, "parse_ctq_result",
                                       extract_form_data(page, execution),
                                       FALSE, None, None,
                                       page.extra_values, NoVrac,
                                       _next_proxy(idx, list))>>,
                             <<>>)

\* the keys of the vrac_data dictionary
VracKeys == {"vrac_numero_inscription", "vrac_region_exploitation",
             "vrac_nombre_camions", "vrac_nom_courtier"}

\* the vrac_data dictionary built from the four cells of the VRAC table
VracData(cells) ==
    [vrac_numero_inscription |-> cells[1],
     vrac_region_exploitation |-> cells[2],
     vrac_nombre_camions |-> cells[3],
     vrac_nom_courtier |-> cells[4]]

\* a record: base_item.update(more), the keys of more added to (and replacing)
\* those of the base item; via and src tell which callback of which traversal
\* yielded it
Item(src, via, neq, extra_values, more) ==
    more @@ [src |-> src, via |-> via, neq |-> neq, extra_values |-> extra_values]

\* faulty variant: the extra values of the validity page are not handed on to
\* the detail POST
parse_vrac_result_dropping_extra(req, page, idx, list) ==
    IF page.status # 200 THEN Yield(<<>>, <<>>)
    ELSE LET vrac_data == VracData(page.cells)
         IN  IF req.ctq_action \notin {None, ""}
             THEN Yield(<<Request(req.neq, req.cookiejar, "parse_ctq_result_with_vrac",
                                  req.ctq_formdata, None, None, None,
                                  "", vrac_data,
                                  _next_proxy(idx, list))>>,
                        <<>>)
             ELSE Yield(<<>>, <<Item(req.neq, "parse_vrac_result", req.neq, "", vrac_data)>>)

parse_vrac_result(req, page, idx, list) ==
    IF page.status # 200 THEN Yield(<<>>, <<>>)
    ELSE LET vrac_data == VracData(page.cells)
         IN  IF req.ctq_action \notin {None, ""}
             THEN Yield(<<Request(req.neq, req.cookiejar, "parse_ctq_result_with_vrac",
                                  req.ctq_formdata, None, None, None,
                                  req.extra_values, vrac_data,
                                  _next_proxy(idx, list))>>,
                        <<>>)
             ELSE Yield(<<>>, <<Item(req.neq, "parse_vrac_result", req.neq, "", vrac_data)>>)

\* faulty variant: the record is built whatever the status of the detail page
parse_ctq_result_ignoring_status(req, page, idx, list) ==
    Yield(<<>>,
          <<Item(req.neq, "parse_ctq_result",
                 IF page.neq # "" THEN page.neq ELSE req.neq,
                 req.extra_values, VracData(NoVrac))>>)

\* faulty variant: the base item is built without the default VRAC fields
parse_ctq_result_without_vrac_defaults(req, page, idx, list) ==
    IF page.status # 200 THEN Yield(<<>>, <<>>)
    ELSE Yield(<<>>,
               <<Item(req.neq, "parse_ctq_result",
                      IF page.neq # "" THEN page.neq ELSE req.neq,
                      req.extra_values, [k \in {} |-> ""])>>)

parse_ctq_result(req, page, idx, list) ==
    IF page.status # 200 THEN Yield(<<>>, <<>>)
    ELSE Yield(<<>>,
               <<Item(req.neq, "parse_ctq_result",
                      IF page.neq # "" THEN page.neq ELSE req.neq,
                      req.extra_values, VracData(NoVrac))>>)

\* faulty variant: the broker name of the VRAC data is not merged into the record
parse_ctq_result_with_vrac_dropping_broker(req, page, idx, list) ==
    IF page.status # 200 THEN Yield(<<>>, <<>>)
    ELSE Yield(<<>>,
               <<Item(req.neq, "parse_ctq_result_with_vrac",
                      IF page.neq # "" THEN page.neq ELSE req.neq,
                      req.extra_values,
                      [req.vrac_data EXCEPT !.vrac_nom_courtier = ""])>>)

parse_ctq_result_with_vrac(req, page, idx, list) ==
    IF page.status # 200 THEN Yield(<<>>, <<>>)
    ELSE Yield(<<>>,
               <<Item(req.neq, "parse_ctq_result_with_vrac",
                      IF page.neq # "" THEN page.neq ELSE req.neq,
                      req.extra_values, req.vrac_data)>>)

(***************************************************************************)
(* CtqScraperSpider: the engine delivering responses to the callbacks      *)
(***************************************************************************)
RECURSIVE SeqToBag(_)
SeqToBag(s) == IF s = <<>> THEN EmptyBag ELSE SetToBag({Head(s)}) (+) SeqToBag(Tail(s))

Callbacks(s) == [i \in 1..Len(s) |-> s[i].callback]

\* the statuses of a transient failure
TransientStatuses == {429, 500, 502, 503, 504}

\* observer: whether a request of the NEQ has failed transiently so far, and how
Failure(before, status) ==
    IF before # "no" THEN before
    ELSE IF status \in TransientStatuses THEN "status"
    ELSE "no"

\* what an observer of the landing page concludes
LandingVerdict(page) ==
    IF page.status = 200 /\ page.form /\ page.view_state \notin {None, ""}
    THEN "ok" ELSE "bad"

\* what an observer of the validity page received for NEQ n concludes
ValidityVerdict(page, n) ==
    IF page.status # 200 \/ ~page.body THEN "no page"
    ELSE IF page.ctq_action \in {None, ""} THEN "no form action"
    ELSE IF page.erreur THEN "erreur"
    ELSE IF page.match_text # n THEN "mismatch"
    ELSE IF page.vrac_onclick \notin {None, ""} THEN "vrac"
    ELSE "direct"

\* faulty variant: after a first error the run takes no further NEQ
start_requests_stopping_after_error ==
    /\ errors = 0
    /\ neqs # <<>>
    /\ LET neq == Head(neqs)
           req == start_request(neq, ctq_proxy_index, proxy_list)
       IN  /\ requests' = requests (+) SetToBag({req})
           /\ issued' = [issued EXCEPT ![neq] = Append(@, req.callback)]
    /\ neqs' = Tail(neqs)
    /\ ctq_proxy_index' = NextIndex(ctq_proxy_index, proxy_list)
    /\ total_requests' = total_requests + 1
    /\ UNCHANGED <<callVars, proxy_list, poolVars, sessionVars, reqVars, errors, items, landing,
                   validity, vrac_table, extras, failed, logged, args>>

\* the engine takes the next request out of start_requests
start_requests ==
    /\ neqs # <<>>
    /\ LET neq == Head(neqs)
           req == start_request(neq, ctq_proxy_index, proxy_list)
       IN  /\ requests' = requests (+) SetToBag({req})
           /\ issued' = [issued EXCEPT ![neq] = Append(@, req.callback)]
    /\ neqs' = Tail(neqs)
    /\ ctq_proxy_index' = NextIndex(ctq_proxy_index, proxy_list)
    /\ total_requests' = total_requests + 1
    /\ UNCHANGED <<callVars, proxy_list, poolVars, sessionVars, reqVars, errors, items, landing,
                   validity, vrac_table, extras, failed, logged, args>>

\* the effect of a callback that was given req's response and yielded y
Deliver(req, y) ==
    /\ requests' = (requests (-) SetToBag({req})) (+) SeqToBag(y.out)
    /\ items' = items \o y.item
    /\ issued' = [issued EXCEPT ![req.neq] = @ \o Callbacks(y.out)]
    /\ ctq_proxy_index' = IF y.out = <<>> THEN ctq_proxy_index
                          ELSE NextIndex(ctq_proxy_index, proxy_list)
    /\ UNCHANGED <<callVars, proxy_list, poolVars, sessionVars, reqVars, neqs, total_requests,
                   errors, args>>

respond_parse_initial ==
    \E req \in BagToSet(requests) :
        /\ req.callback = "parse_initial"
        /\ \E page \in LandingPages(req.neq) :
              /\ Deliver(req, parse_initial(req, page, ctq_proxy_index, proxy_list))
              /\ landing' = [landing EXCEPT ![req.neq] = LandingVerdict(page)]
              /\ failed' = [failed EXCEPT ![req.neq] = Failure(@, page.status)]
              /\ logged' = [logged EXCEPT ![req.neq] = parse_initial_logs(page)]
              /\ UNCHANGED <<validity, vrac_table, extras>>

respond_check_validity ==
    \E req \in BagToSet(requests) :
        /\ req.callback = "check_validity"
        /\ \E page \in ValidityPages(req.neq) :
              /\ Deliver(req, check_validity(req, page, ctq_proxy_index, proxy_list))
              /\ validity' = [validity EXCEPT ![req.neq] = ValidityVerdict(page, req.neq)]
              /\ extras' = [extras EXCEPT ![req.neq] = page.extra_values]
              /\ failed' = [failed EXCEPT ![req.neq] = Failure(@, page.status)]
              /\ logged' = [logged EXCEPT ![req.neq] = check_validity_logs(page)]
              /\ UNCHANGED <<landing, vrac_table>>

respond_parse_vrac_result ==
    \E req \in BagToSet(requests) :
        /\ req.callback = "parse_vrac_result"
        /\ \E page \in VracPages(req.neq) :
              /\ Deliver(req, parse_vrac_result(req, page, ctq_proxy_index, proxy_list))
              /\ vrac_table' = [vrac_table EXCEPT ![req.neq] =
                                    IF page.status = 200 THEN page.cells ELSE @]
              /\ failed' = [failed EXCEPT ![req.neq] = Failure(@, page.status)]
              /\ logged' = [logged EXCEPT ![req.neq] = status_logs(page)]
        /\ UNCHANGED <<landing, validity, extras>>

respond_parse_ctq_result ==
    \E req \in BagToSet(requests) :
        /\ req.callback = "parse_ctq_result"
        /\ \E page \in DetailPages(req.neq) :
              /\ Deliver(req, parse_ctq_result(req, page, ctq_proxy_index, proxy_list))
              /\ failed' = [failed EXCEPT ![req.neq] = Failure(@, page.status)]
              /\ logged' = [logged EXCEPT ![req.neq] = status_logs(page)]
        /\ UNCHANGED <<landing, validity, vrac_table, extras>>

respond_parse_ctq_result_with_vrac ==
    \E req \in BagToSet(requests) :
        /\ req.callback = "parse_ctq_result_with_vrac"
        /\ \E page \in DetailPages(req.neq) :
              /\ Deliver(req, parse_ctq_result_with_vrac(req, page, ctq_proxy_index, proxy_list))
              /\ failed' = [failed EXCEPT ![req.neq] = Failure(@, page.status)]
              /\ logged' = [logged EXCEPT ![req.neq] = status_logs(page)]
        /\ UNCHANGED <<landing, validity, vrac_table, extras>>

\* faulty variant: the errback puts the failed request back
ctq_handle_error_resubmitting(req, errs) == [out |-> <<req>>, errors |-> errs + 1, logs |-> {"error"}]

\* CtqScraperSpider.handle_error: it yields nothing, writes an error entry and
\* counts the error
ctq_handle_error(req, errs) == [out |-> <<>>, errors |-> errs + 1, logs |-> {"error"}]

\* the errback: a transport failure, or a status outside handle_httpstatus_list
handle_error ==
    \E req \in BagToSet(requests) :
        LET h == ctq_handle_error(req, errors)
        IN  /\ requests' = (requests (-) SetToBag({req})) (+) SeqToBag(h.out)
            /\ errors' = h.errors
            /\ failed' = [failed EXCEPT ![req.neq] = IF @ = "no" THEN "transport" ELSE @]
            /\ logged' = [logged EXCEPT ![req.neq] = h.logs]
            /\ UNCHANGED <<callVars, proxy_list, poolVars, sessionVars, reqVars, neqs, ctq_proxy_index,
                           total_requests, items, issued, landing, validity, vrac_table,
                           extras, args>>

\* the neqs, file and start_neq arguments of a run
FileLists == {<<>>, <<"n2">>, <<"n2", "n1">>}

\* the arguments of a run: the pieces of neqs, the values of the file, start_neq
Args(pieces, file_neqs, start_neq, recorded) ==
    [pieces |-> pieces, file_neqs |-> file_neqs, start_neq |-> start_neq,
     recorded |-> recorded]

NoArgs == Args(<<>>, <<>>, None, FALSE)

CtqInit ==
    /\ \E pieces \in SeqsUpTo(InlinePieces, MaxInline), file_neqs \in FileLists,
          start_neq \in Neqs \cup {None} :
          neqs = SpiderNeqs(pieces, file_neqs, start_neq)
    /\ args = NoArgs
    /\ extras = [n \in Neqs |-> None]
    /\ failed = [n \in Neqs |-> "no"]
    /\ logged = [n \in Neqs |-> {}]
    /\ ctq_proxy_index = 0
    /\ total_requests = 0
    /\ errors = 0
    /\ requests = EmptyBag
    /\ items = <<>>
    /\ issued = [n \in Neqs |-> <<>>]
    /\ landing = [n \in Neqs |-> "none"]
    /\ validity = [n \in Neqs |-> "none"]
    /\ vrac_table = [n \in Neqs |-> NoVrac]

\* a spider that is given no NEQ
CtqIdle ==
    /\ neqs = <<>>
    /\ args = NoArgs
    /\ extras = [n \in Neqs |-> None]
    /\ failed = [n \in Neqs |-> "no"]
    /\ logged = [n \in Neqs |-> {}]
    /\ ctq_proxy_index = 0
    /\ total_requests = 0
    /\ errors = 0
    /\ requests = EmptyBag
    /\ items = <<>>
    /\ issued = [n \in Neqs |-> <<>>]
    /\ landing = [n \in Neqs |-> "none"]
    /\ validity = [n \in Neqs |-> "none"]
    /\ vrac_table = [n \in Neqs |-> NoVrac]

(***************************************************************************)
(* ReqScraperSpider (spiders/neq_confirmation.py)                          *)
(***************************************************************************)
\* RETRY_TIMES of settings.py: the declared cap on resubmissions
RETRY_TIMES == 3

\* the residential endpoint http://host:port
ResiEndpoint == "resi"

\* the proxy make_request routes a request through
req_proxy(resi, idx, list) ==
    IF resi THEN ResiEndpoint
    ELSE IF Len(list) > 0 THEN list[(idx % Len(list)) + 1]
    ELSE None

\* make_request: the request it builds; resubmits counts, for an observer, how
\* often handle_error has put the request back
ReqRequest(neq, callback, ctq_result, proxy) ==
    [neq |-> neq, callback |-> callback, ctq_result |-> ctq_result, proxy |-> proxy,
     dont_retry |-> TRUE, resubmits |-> 0]

\* what a callback of ReqScraperSpider yields: callbacks of the requests it
\* makes (each with the ctq_result it puts in meta) and records
ReqRecord(neq, rbq, ctq) == [NEQ |-> neq, RBQ |-> rbq, CTQ |-> ctq]

\* the pages of the two registries, reduced to what the callbacks read
CtqRedirectPages == [ctq_action : {None, "", "/pes2/mvc/dossierclient?execution=e1s1"}]

CtqResultPages == [erreur : BOOLEAN, displayed : Neqs \cup {None}]

RbqRedirectPages == [rbq_action : {None, "", "/RegistreLicences/Resultats"}]

RbqResultPages == [nav : BOOLEAN]

\* start_rbq_check(neq, ctq_result)
start_rbq_check(neq, ctq_result) ==
    Yield(<<[callback |-> "init_rbq_request", ctq_result |-> ctq_result]>>, <<>>)

init_ctq_request(req) ==
    Yield(<<[callback |-> "parse_ctq_redirect", ctq_result |-> None]>>, <<>>)

parse_ctq_redirect(req, page) ==
    IF page.ctq_action \notin {None, ""}
    THEN Yield(<<[callback |-> "req_parse_ctq_result", ctq_result |-> None]>>, <<>>)
    ELSE start_rbq_check(req.neq, "No")

\* parse_ctq_result without the test of the 'Erreur(s)' heading
req_parse_ctq_result_ignoring_erreur(req, page) ==
    start_rbq_check(req.neq, IF page.displayed = req.neq THEN "Yes" ELSE "No")

\* ReqScraperSpider.parse_ctq_result
req_parse_ctq_result(req, page) ==
    LET ctq_result == IF page.erreur THEN "No"
                      ELSE IF page.displayed = req.neq THEN "Yes"
                      ELSE "No"
    IN  start_rbq_check(req.neq, ctq_result)

init_rbq_request(req) ==
    Yield(<<[callback |-> "parse_rbq_redirect", ctq_result |-> req.ctq_result]>>, <<>>)

parse_rbq_redirect(req, page) ==
    IF page.rbq_action \notin {None, ""}
    THEN Yield(<<[callback |-> "parse_rbq_result", ctq_result |-> req.ctq_result]>>, <<>>)
    ELSE IF req.ctq_result = "Yes"
         THEN Yield(<<>>, <<ReqRecord(req.neq, "No", req.ctq_result)>>)
         ELSE Yield(<<>>, <<>>)

\* parse_rbq_result yielding its record whatever the two results are
parse_rbq_result_always(req, page) ==
    LET rbq_result == IF page.nav THEN "Yes" ELSE "No"
    IN  Yield(<<>>, <<ReqRecord(req.neq, rbq_result, req.ctq_result)>>)

parse_rbq_result(req, page) ==
    LET rbq_result == IF page.nav THEN "Yes" ELSE "No"
    IN  IF ~(rbq_result = "No" /\ req.ctq_result = "No")
        THEN Yield(<<>>, <<ReqRecord(req.neq, rbq_result, req.ctq_result)>>)
        ELSE Yield(<<>>, <<>>)

\* start_requests of ReqScraperSpider, one turn of its loop
req_start_requests ==
    /\ neq_list # <<>>
    /\ req_requests' = req_requests (+)
           SetToBag({ReqRequest(Head(neq_list), "init_ctq_request", None,
                                req_proxy(use_residential_proxy, req_proxy_index, proxy_list))})
    /\ neq_list' = Tail(neq_list)
    /\ req_total_requests' = req_total_requests + 1
    /\ UNCHANGED <<callVars, proxy_list, poolVars, ctqVars, sessionVars, req_proxy_index,
                   use_residential_proxy, req_errors, req_items, ctq_outcome>>

\* the requests a callback's yield turns into, each built by make_request
RECURSIVE ReqMade(_, _)
ReqMade(neq, out) ==
    IF out = <<>> THEN EmptyBag
    ELSE SetToBag({ReqRequest(neq, Head(out).callback, Head(out).ctq_result,
                              req_proxy(use_residential_proxy, req_proxy_index, proxy_list))})
         (+) ReqMade(neq, Tail(out))

\* what the page given to parse_ctq_redirect shows: the form's action
ctq_redirect_outcome(page) ==
    IF page.ctq_action \in {None, ""} THEN "no form action" ELSE "form action"

\* what the page given to parse_ctq_result shows for the NEQ searched: the
\* 'Erreur(s)' heading, the NEQ next to the 'NEQ' label
ctq_result_outcome(neq, page) ==
    IF page.erreur THEN "erreur"
    ELSE IF page.displayed = neq THEN "match"
    ELSE "mismatch"

\* the effect of a callback that was given req's response and yielded y;
\* outcome is what the page showed when it is a CTQ page
ReqDeliver(req, y, outcome) ==
    /\ ctq_outcome' = outcome
    /\ req_requests' = (req_requests (-) SetToBag({req})) (+) ReqMade(req.neq, y.out)
    /\ req_items' = req_items \o y.item
    /\ req_total_requests' = req_total_requests + Len(y.out)
    /\ UNCHANGED <<callVars, proxy_list, poolVars, ctqVars, sessionVars, neq_list, req_proxy_index,
                   use_residential_proxy, req_errors>>

respond_init_ctq_request ==
    \E req \in BagToSet(req_requests) :
        /\ req.callback = "init_ctq_request"
        /\ ReqDeliver(req, init_ctq_request(req), ctq_outcome)

respond_parse_ctq_redirect ==
    \E req \in BagToSet(req_requests) :
        /\ req.callback = "parse_ctq_redirect"
        /\ \E page \in CtqRedirectPages : ReqDeliver(req, parse_ctq_redirect(req, page), ctq_redirect_outcome(page))

respond_req_parse_ctq_result ==
    \E req \in BagToSet(req_requests) :
        /\ req.callback = "req_parse_ctq_result"
        /\ \E page \in CtqResultPages : ReqDeliver(req, req_parse_ctq_result(req, page),
                                                 ctq_result_outcome(req.neq, page))

respond_init_rbq_request ==
    \E req \in BagToSet(req_requests) :
        /\ req.callback = "init_rbq_request"
        /\ ReqDeliver(req, init_rbq_request(req), ctq_outcome)

respond_parse_rbq_redirect ==
    \E req \in BagToSet(req_requests) :
        /\ req.callback = "parse_rbq_redirect"
        /\ \E page \in RbqRedirectPages : ReqDeliver(req, parse_rbq_redirect(req, page), ctq_outcome)

respond_parse_rbq_result ==
    \E req \in BagToSet(req_requests) :
        /\ req.callback = "parse_rbq_result"
        /\ \E page \in RbqResultPages : ReqDeliver(req, parse_rbq_result(req, page), ctq_outcome)

\* handle_error of ReqScraperSpider: what it does with the failed request.
\* [out: the requests it yields, index: current_proxy_index, errors: self.errors]
req_handle_error(req, has_request, resi, idx, list, errs) ==
    IF ~has_request
    THEN [out |-> <<>>, index |-> idx, errors |-> errs + 1]
    ELSE IF resi
    THEN [out |-> <<[req EXCEPT !.proxy = ResiEndpoint, !.resubmits = @ + 1]>>,
          index |-> idx, errors |-> errs]
    ELSE IF Len(list) > 0
    THEN LET next == (idx + 1) % Len(list)
         IN  [out |-> <<[req EXCEPT !.proxy = list[(next % Len(list)) + 1],
                                    !.resubmits = @ + 1]>>,
              index |-> next, errors |-> errs]
    ELSE [out |-> <<>>, index |-> idx, errors |-> errs + 1]

\* the errback: a transport failure, or a status outside handle_httpstatus_list;
\* the failure may come without its request object
req_errback ==
    \E req \in BagToSet(req_requests), has_request \in BOOLEAN :
        /\ req.resubmits < MaxResubmits
        /\ LET h == req_handle_error(req, has_request, use_residential_proxy,
                                     req_proxy_index, proxy_list, req_errors)
           IN  /\ req_requests' = (req_requests (-) SetToBag({req})) (+) SeqToBag(h.out)
               /\ req_proxy_index' = h.index
               /\ req_errors' = h.errors
        /\ UNCHANGED <<callVars, proxy_list, poolVars, ctqVars, sessionVars, neq_list,
                       use_residential_proxy, req_total_requests, req_items, ctq_outcome>>

\* ReqScraperSpider.__init__ and from_crawler
ReqInit ==
    /\ neq_list \in SeqsUpTo(Neqs, MaxNeqList)
    /\ req_proxy_index = 0
    /\ use_residential_proxy \in BOOLEAN
    /\ req_total_requests = 0
    /\ req_errors = 0
    /\ req_requests = EmptyBag
    /\ req_items = <<>>
    /\ ctq_outcome = "none"

(***************************************************************************)
(* Specifications                                                          *)
(***************************************************************************)
\* no request is being downloaded for CtqScraperSpider
\* an empty cookie dict
NoCookies == [c \in {} |-> ""]

\* no request has gone through the middleware
SessionIdle ==
    /\ session_cookies = [p \in ProxyNames |-> NoCookies]
    /\ wire = {}

\* ReqScraperSpider is not run
ReqIdle ==
    /\ neq_list = <<>>
    /\ req_proxy_index = 0
    /\ use_residential_proxy = FALSE
    /\ req_total_requests = 0
    /\ req_errors = 0
    /\ req_requests = EmptyBag
    /\ req_items = <<>>
    /\ ctq_outcome = "none"

PoolInit ==
    /\ proxy_list \in Pools
    /\ MiddlewareInit
    /\ CallIdle
    /\ CtqIdle
    /\ SessionIdle
    /\ ReqIdle

PoolNext ==
    \/ process_request
    \/ process_response
    \/ process_exception
    \/ Tick

\* the middleware under any sequence of request, response and exception events
SpecPool == PoolInit /\ [][PoolNext]_vars

\* __init__: the counters and the observers of a spider that has issued nothing
CtqFresh ==
    /\ extras = [n \in Neqs |-> None]
    /\ failed = [n \in Neqs |-> "no"]
    /\ logged = [n \in Neqs |-> {}]
    /\ ctq_proxy_index = 0
    /\ total_requests = 0
    /\ errors = 0
    /\ requests = EmptyBag
    /\ items = <<>>
    /\ issued = [n \in Neqs |-> <<>>]
    /\ landing = [n \in Neqs |-> "none"]
    /\ validity = [n \in Neqs |-> "none"]
    /\ vrac_table = [n \in Neqs |-> NoVrac]

(***************************************************************************)
(* _iter_neq_values as a function of the arguments of the run              *)
(***************************************************************************)
\* longest CSV file of the runs in which the generator is checked
MaxFile == 2

\* the values _load_neqs_from_file yields: stripped, non-empty, repeats allowed
IterFiles == SeqsUpTo(Neqs, MaxFile)

\* the arguments are drawn, self.neqs is not built yet
IterInit ==
    /\ proxy_list = <<>>
    /\ MiddlewareInit
    /\ CallIdle
    /\ \E pieces \in SeqsUpTo(InlinePieces, MaxInline), file_neqs \in IterFiles,
          start_neq \in Neqs \cup {None} :
          args = Args(pieces, file_neqs, start_neq, FALSE)
    /\ neqs = <<>>
    /\ CtqFresh
    /\ SessionIdle
    /\ ReqIdle

\* __init__ builds self.neqs and the generator is run to its end
iter_neq_values ==
    /\ ~args.recorded
    /\ neqs' = SpiderNeqs(args.pieces, args.file_neqs, args.start_neq)
    /\ args' = [args EXCEPT !.recorded = TRUE]
    /\ UNCHANGED <<callVars, proxy_list, poolVars, sessionVars, reqVars>>
    /\ UNCHANGED <<ctq_proxy_index, total_requests, errors, requests, items, issued,
                   landing, validity, vrac_table, extras, failed, logged>>

IterNext == iter_neq_values

\* the NEQ generator applied to each combination of arguments
SpecIter == IterInit /\ [][IterNext]_vars

(***************************************************************************)
(* The middleware's per-proxy session cookies on the requests of the       *)
(* traversals.                                                             *)
(***************************************************************************)
\* the proxy lists of the runs in which the session cookies are followed
SessionPools == {<<"p1">>, <<"p1", "p2">>}

\* the cookies the site sets
CookieNames == {"JSESSIONID"}

\* the session the site opens for the traversal of NEQ n
SessionId(n) == "sid-" \o n

\* a request being downloaded: request.meta['neq'], request.meta['current_proxy']
\* and the request.cookies process_request left on it
Wire(neq, proxy, cookies) == [neq |-> neq, proxy |-> proxy, cookies |-> cookies]

\* the Set-Cookie headers of a response to a request of NEQ n: none, or the
\* session of the traversal
SetCookies(n) == {NoCookies, [c \in CookieNames |-> SessionId(n)]}

\* dict.update(more)
Update(dict, more) == more @@ dict

\* get_session_cookies_for_proxy and request.cookies.update: the cookies the
\* request leaves process_request with
RequestCookies(cookies, proxy) == Update(NoCookies, cookies[proxy])

\* process_request for a request of the traversal of NEQ n; a traversal has
\* one request at a time
session_process_request ==
    \E n \in Neqs :
        /\ last.op # "hung"
        /\ InFlightTotal < MaxInFlight
        /\ \A w \in wire : w.neq # n
        /\ LET g == get_available_proxy(proxy_list, proxy_stats, current_proxy_index, now)
           IN  IF g.ret = "diverged"
               THEN /\ last' = Call("hung", None, 0, g.reset, FALSE, 0)
                    /\ proxy_stats' = g.stats
                    /\ UNCHANGED <<current_proxy_index, inflight, wire>>
               ELSE /\ proxy_stats' = g.stats
                    /\ current_proxy_index' = g.index
                    /\ inflight' = [inflight EXCEPT ![g.ret] = @ + 1]
                    /\ last' = Call("process_request", g.ret, 0, g.reset,
                                    g.ret # None /\ Cooling(proxy_stats, g.ret, now),
                                    Awake(proxy_list, proxy_stats, now))
                    /\ wire' = wire \cup
                                 {Wire(n, g.ret, IF g.ret = None THEN NoCookies
                                                 ELSE RequestCookies(session_cookies, g.ret))}
        /\ UNCHANGED <<callVars, proxy_list, now, ticks, streak503, session_cookies, ctqVars, reqVars>>

\* set_session_cookies_for_proxy(proxy, cookies)
set_session_cookies_for_proxy(cookies, proxy, more) ==
    [cookies EXCEPT ![proxy] = Update(@, more)]

\* process_response for the response to a request of a traversal.  The loop
\* over getlist('Set-Cookie') splits each header value on the str ';': where
\* the header values are str the cookies are stored (parsed), where they are
\* bytes the split raises TypeError and process_response ends there.
session_process_response ==
    \E w \in wire, status \in Statuses, parsed \in BOOLEAN :
        \E set_cookie \in SetCookies(w.neq) :
            /\ last.op # "hung"
            /\ (set_cookie = NoCookies \/ w.proxy = None) => parsed
            /\ wire' = wire \ {w}
            /\ inflight' = [inflight EXCEPT ![w.proxy] = @ - 1]
            /\ last' = Call("process_response", w.proxy, status, FALSE, FALSE, 0)
            /\ IF w.proxy = None \/ ~parsed
               THEN UNCHANGED <<proxy_stats, current_proxy_index, streak503, session_cookies>>
               ELSE /\ session_cookies' =
                          IF set_cookie = NoCookies THEN session_cookies
                          ELSE set_session_cookies_for_proxy(session_cookies, w.proxy, set_cookie)
                    /\ proxy_stats' = ResponseStats(proxy_stats, w.proxy, status, now)
                    /\ current_proxy_index' = ResponseIndex(current_proxy_index, proxy_list, status)
                    /\ streak503' = [streak503 EXCEPT ![w.proxy] = Streak(@, status = 503)]
            /\ UNCHANGED <<callVars, proxy_list, now, ticks, ctqVars, reqVars>>

\* process_exception for a request of a traversal
session_process_exception ==
    \E w \in wire :
        /\ last.op # "hung"
        /\ wire' = wire \ {w}
        /\ inflight' = [inflight EXCEPT ![w.proxy] = @ - 1]
        /\ last' = Call("process_exception", w.proxy, 0, FALSE, FALSE, 0)
        /\ IF w.proxy = None
           THEN UNCHANGED <<proxy_stats, current_proxy_index, streak503>>
           ELSE /\ proxy_stats' = ExceptionStats(proxy_stats, w.proxy, now)
                /\ current_proxy_index' = rotate_to_next_proxy(current_proxy_index, proxy_list)
                /\ streak503' = [streak503 EXCEPT ![w.proxy] = Streak(@, FALSE)]
        /\ UNCHANGED <<callVars, proxy_list, now, ticks, session_cookies, ctqVars, reqVars>>

SessionInit ==
    /\ proxy_list \in SessionPools
    /\ MiddlewareInit
    /\ CallIdle
    /\ CtqIdle
    /\ SessionIdle
    /\ ReqIdle

SessionNext ==
    \/ session_process_request
    \/ session_process_response
    \/ session_process_exception

\* the requests of the traversals going through the middleware, within one
\* cooldown period (time.time() stays below the first sleep_until)
SpecSession == SessionInit /\ [][SessionNext]_vars

Init ==
    /\ proxy_list \in Pools
    /\ MiddlewareInit
    /\ CallIdle
    /\ CtqInit
    /\ SessionIdle
    /\ ReqIdle

Next ==
    \/ start_requests
    \/ respond_parse_initial
    \/ respond_check_validity
    \/ respond_parse_vrac_result
    \/ respond_parse_ctq_result
    \/ respond_parse_ctq_result_with_vrac
    \/ handle_error

\* a run of ctq_scraper
Spec == Init /\ [][Next]_vars

\* arguments with repeated entries: within the inline list, and between the
\* inline list and the file
RepeatArgs ==
    {Args(<<"n1", "n1">>, <<>>, None, TRUE),
     Args(<<"n2", "n2">>, <<"n2", "n1">>, None, TRUE),
     Args(<<"n1", "n2">>, <<"n2", "n1">>, None, TRUE)}

\* a run of ctq_scraper whose arguments repeat NEQs
RepeatInit ==
    /\ proxy_list \in FairPools
    /\ MiddlewareInit
    /\ CallIdle
    /\ args \in RepeatArgs
    /\ neqs = SpiderNeqs(args.pieces, args.file_neqs, args.start_neq)
    /\ CtqFresh
    /\ SessionIdle
    /\ ReqIdle

SpecRepeat == RepeatInit /\ [][Next]_vars

(***************************************************************************)
(* Helper functions called on their own.  A text is the sequence of its    *)
(* characters.                                                             *)
(***************************************************************************)
\* longest proxies.json entry of the calls of get_proxy_creds
MaxEntryLen == 8

\* the characters of a proxies.json entry: a field character, the two
\* separators, whitespace
EntryChars == {"a", ":", ",", " "}

\* str.count(c)
Count(s, c) == Cardinality({i \in 1..Len(s) : s[i] = c})

\* str.strip()
RECURSIVE Strip(_)
Strip(s) ==
    IF s = <<>> THEN s
    ELSE IF Head(s) = " " THEN Strip(Tail(s))
    ELSE IF s[Len(s)] = " " THEN Strip(SubSeq(s, 1, Len(s) - 1))
    ELSE s

\* str.split(c): the parts between the occurrences of c
RECURSIVE Split(_, _)
Split(s, c) ==
    IF Count(s, c) = 0 THEN <<s>>
    ELSE LET i == CHOOSE k \in 1..Len(s) : s[k] = c /\ \A j \in 1..(k - 1) : s[j] # c
         IN  <<SubSeq(s, 1, i - 1)>> \o Split(SubSeq(s, i + 1, Len(s)), c)

\* [p.strip() for p in entry.split(c)]
StrippedParts(s, c) == [i \in 1..Len(Split(s, c)) |-> Strip(Split(s, c)[i])]

\* what __init__ keeps of proxies.json: stripped, non-empty entries, here of
\* up to n characters
PoolEntries(n) == {e \in SeqsUpTo(EntryChars, n) : e # <<>> /\ Strip(e) = e}

\* {"ip": ..., "user": ..., "pass": ...}
Creds(ip, user, pass) == [ip |-> ip, user |-> user, pass |-> pass]

\* the parts get_proxy_creds ends up with after choosing the separator
ProxyParts(entry) ==
    IF Count(entry, ",") = 3 THEN StrippedParts(entry, ",")
    ELSE IF Count(entry, ":") = 3 THEN StrippedParts(entry, ":")
    ELSE IF Len(StrippedParts(entry, ":")) = 4 THEN StrippedParts(entry, ":")
    ELSE StrippedParts(entry, ",")

get_proxy_creds(list, index) ==
    IF list = <<>> THEN Creds(<<>>, <<>>, <<>>)
    ELSE LET entry == Strip(list[(index % Len(list)) + 1])
             parts == ProxyParts(entry)
         IN  IF Len(parts) = 4
             THEN Creds(parts[1] \o <<":">> \o parts[2], parts[3], parts[4])
             ELSE IF Len(parts) = 2
             THEN Creds(parts[1] \o <<":">> \o parts[2], <<>>, <<>>)
             ELSE Creds(entry, <<>>, <<>>)

\* the call returns: what is recorded of it
Returns(c, r) ==
    /\ call' = c
    /\ result' = r
    /\ UNCHANGED <<proxy_list, poolVars, ctqVars, sessionVars, reqVars>>

\* get_proxy_creds(index), called once on a spider whose pool is empty or
\* holds one entry
call_get_proxy_creds ==
    /\ call.fn = "none"
    /\ \E list \in {<<>>} \cup {<<e>> : e \in PoolEntries(MaxEntryLen)}, index \in 0..1 :
           Returns([fn |-> "get_proxy_creds", list |-> list, index |-> index],
                   get_proxy_creds(list, index))

CallInit ==
    /\ proxy_list = <<>>
    /\ MiddlewareInit
    /\ CallIdle
    /\ CtqIdle
    /\ SessionIdle
    /\ ReqIdle

\* the calls of get_proxy_creds
SpecCreds == CallInit /\ [][call_get_proxy_creds]_vars

\* ReqScraperSpider.get_proxy_creds: the entry split on ':' only, untrimmed
req_get_proxy_creds(list, index) ==
    IF list = <<>> THEN Creds(<<>>, <<>>, <<>>)
    ELSE LET entry == list[(index % Len(list)) + 1]
             parts == Split(entry, ":")
         IN  IF Len(parts) = 4
             THEN Creds(parts[1] \o <<":">> \o parts[2], parts[3], parts[4])
             ELSE Creds(entry, <<>>, <<>>)

\* process_request of the middleware: the address and the credentials of the
\* proxy URL it builds, http://username:password@ip:port or http://proxy
middleware_proxy(proxy) ==
    LET proxy_parts == Split(proxy, ":")
    IN  IF Len(proxy_parts) = 4
        THEN Creds(proxy_parts[1] \o <<":">> \o proxy_parts[2], proxy_parts[3], proxy_parts[4])
        ELSE Creds(proxy, <<>>, <<>>)

\* one entry of proxies.json given to the three components that parse it
call_proxy_parsers ==
    /\ call.fn = "none"
    /\ \E entry \in PoolEntries(MaxEntryLen) :
           Returns([fn |-> "proxy parsers", list |-> <<entry>>],
                   [ctq |-> get_proxy_creds(<<entry>>, 0),
                    req |-> req_get_proxy_creds(<<entry>>, 0),
                    middleware |-> middleware_proxy(entry)])

\* the three parsers on each pool entry
SpecProxyEntry == CallInit /\ [][call_proxy_parsers]_vars

(***************************************************************************)
(* Enrichment: AIEnrichmentPipeline.process_item (pipelines.py),           *)
(* process_csv_file (ai_enhancment.py), enrich_ai_test_rows                *)
(* (ai_db_enrichment.py).                                                  *)
(***************************************************************************)
\* longest phone number the gateway returns in the calls of process_item
MaxPhoneLen == 9

\* longest batch of companies or rows
MaxBatch == 3

\* if processed_count % 5 == 0 (process_csv_file)
SaveEvery == 5

\* the characters of a phone number: the plus sign, a digit, another character
PhoneChars == {"+", "1", "-"}

Phones == SeqsUpTo(PhoneChars, MaxPhoneLen)

\* how a call of enrich_company ends: it returns its result, it raises an
\* Exception, or it raises SystemExit (API timeout, HTTP error, bad payload)
EnrichEnds == {"returns", "Exception", "SystemExit"}

\* process_item: the item is returned in every case; the enrichment fields
\* are mapped onto it when the pipeline is enabled and enrich_company returned
process_item(enabled, ends, phone) ==
    IF ~enabled THEN [emitted |-> TRUE, enriched |-> FALSE, phone |-> <<>>]
    ELSE IF ends # "returns" THEN [emitted |-> TRUE, enriched |-> FALSE, phone |-> <<>>]
    ELSE [emitted |-> TRUE, enriched |-> TRUE, phone |-> phone]

call_process_item ==
    /\ call.fn = "none"
    /\ \E enabled \in BOOLEAN, ends \in EnrichEnds, phone \in Phones :
           /\ (~enabled \/ ends # "returns") => phone = <<>>
           /\ Returns([fn |-> "process_item", enabled |-> enabled, ends |-> ends, phone |-> phone],
                      process_item(enabled, ends, phone))

\* the companies load_companies_from_csv returns: nom (with adresse) and the
\* gating column
Companies == [nom : {"c1", "C1", "c2"}, droit_circulation : {"", "Oui", "Non"}]

\* str.strip().lower() / casefold() on the values above
Lower(t) == IF t = "C1" THEN "c1" ELSE IF t = "Oui" THEN "oui" ELSE IF t = "Non" THEN "non" ELSE t

\* the results found in the output file at the start: none, or four
ExistingResults == {<<>>, <<"o1", "o2", "o3", "o4">>}

\* the state of the loop of process_csv_file: enriched_companies, what the
\* output file holds, and whether the loop was left by an exception
CsvRun(kept, written, aborted) == [kept |-> kept, written |-> written, aborted |-> aborted]

\* process_csv_file from company i on; ends[i] is how enrich_company ends for
\* company i (processed_count = len(enriched_companies) all along)
RECURSIVE csv_loop(_, _, _, _, _)
csv_loop(companies, ends, i, kept, written) ==
    IF i > Len(companies) THEN CsvRun(kept, kept, FALSE)
    ELSE IF \E k \in 1..Len(kept) : Lower(kept[k]) = Lower(companies[i].nom)
         THEN csv_loop(companies, ends, i + 1, kept, written)
    ELSE IF Lower(companies[i].droit_circulation) \notin {"", "oui"}
         THEN csv_loop(companies, ends, i + 1, kept, written)
    ELSE IF ends[i] = "returns"
         THEN LET more == Append(kept, companies[i].nom)
              IN  csv_loop(companies, ends, i + 1, more,
                           IF Len(more) % SaveEvery = 0 THEN more ELSE written)
    ELSE IF ends[i] = "Exception"
         THEN csv_loop(companies, ends, i + 1, kept, kept)
    ELSE CsvRun(kept, written, TRUE)

process_csv_file(companies, existing, ends) == csv_loop(companies, ends, 1, existing, existing)

call_process_csv_file ==
    /\ call.fn = "none"
    /\ \E n \in 1..MaxBatch, existing \in ExistingResults :
           \E companies \in [1..n -> Companies], ends \in [1..n -> EnrichEnds] :
               Returns([fn |-> "process_csv_file", companies |-> companies,
                        existing |-> existing, ends |-> ends],
                       process_csv_file(companies, existing, ends))

\* the state of the loop of enrich_ai_test_rows: processed, the rows updated
\* in the open transaction, the rows committed, and whether the loop was left
\* by an exception (the connection is then closed without a commit)
DbRun(processed, pending, committed, aborted) ==
    [processed |-> processed, pending |-> pending, committed |-> committed, aborted |-> aborted]

\* enrich_ai_test_rows from row i on; update_ok[i] tells whether
\* update_ai_test_row succeeds for row i
RECURSIVE db_loop(_, _, _, _, _, _, _)
db_loop(n, ends, update_ok, commit_every, i, processed, tx) ==
    IF i > n THEN DbRun(processed, {}, tx.committed \cup tx.pending, FALSE)
    ELSE IF ends[i] = "Exception"
         THEN db_loop(n, ends, update_ok, commit_every, i + 1, processed, tx)
    ELSE IF ends[i] = "SystemExit"
         THEN DbRun(processed, {}, tx.committed, TRUE)
    ELSE IF ~update_ok[i]
         THEN db_loop(n, ends, update_ok, commit_every, i + 1, processed,
                      [tx EXCEPT !.pending = {}])
    ELSE IF (processed + 1) % commit_every = 0
         THEN db_loop(n, ends, update_ok, commit_every, i + 1, processed + 1,
                      [pending |-> {}, committed |-> tx.committed \cup tx.pending \cup {i}])
    ELSE db_loop(n, ends, update_ok, commit_every, i + 1, processed + 1,
                 [tx EXCEPT !.pending = @ \cup {i}])

enrich_ai_test_rows(n, ends, update_ok, commit_every) ==
    db_loop(n, ends, update_ok, commit_every, 1, 0, [pending |-> {}, committed |-> {}])

call_enrich_ai_test_rows ==
    /\ call.fn = "none"
    /\ \E n \in 1..MaxBatch, commit_every \in {1, 5} :
           \E ends \in [1..n -> EnrichEnds], update_ok \in [1..n -> BOOLEAN] :
               Returns([fn |-> "enrich_ai_test_rows", n |-> n, ends |-> ends,
                        update_ok |-> update_ok, commit_every |-> commit_every],
                       enrich_ai_test_rows(n, ends, update_ok, commit_every))

EnrichNext ==
    \/ call_process_item
    \/ call_process_csv_file
    \/ call_enrich_ai_test_rows

\* the enrichment entry points, each called once
SpecEnrich == CallInit /\ [][EnrichNext]_vars

(***************************************************************************)
(* The address block of the detail page (parse_ctq_result and              *)
(* parse_ctq_result_with_vrac).                                            *)
(***************************************************************************)
\* longest second line of the address block
MaxLineLen == 7

\* the characters of an address line: two letters, the parentheses, whitespace
LineChars == {"a", "b", "(", ")", " "}

\* normalize(): the lines are stripped and the blank ones dropped; the lines
\* of up to n characters
AddressLines(n) == {l \in SeqsUpTo(LineChars, n) : l # <<>> /\ Strip(l) = l}

\* the address blocks: no line, one line, or a first line and any second line
\* of up to n characters
AddressBlocks(n) == {<<>>, <<<<"a">>>>} \cup {<<<<"b", " ", "a">>, l>> : l \in AddressLines(n)}

Address(adresse, ville, province, code_postal) ==
    [adresse |-> adresse, ville |-> ville, province |-> province, code_postal |-> code_postal]

\* faulty variant: the postal code is taken from before the closing parenthesis
address_fields_postal_before_paren(lines) ==
    LET adresse == IF lines # <<>> THEN lines[1] ELSE <<>>
    IN  IF Len(lines) <= 1 THEN Address(adresse, <<>>, <<>>, <<>>)
        ELSE LET parts == Split(lines[2], "(")
             IN  IF Len(parts) < 2 THEN Address(adresse, Strip(parts[1]), <<>>, <<>>)
                 ELSE Address(adresse, Strip(parts[1]), Strip(Split(parts[2], ")")[1]),
                              Strip(Split(parts[2], ")")[1]))

\* parse_ctq_result: adresse, ville, province, code_postal from the lines; an
\* IndexError ends the try block and keeps what was assigned before it
address_fields(lines) ==
    LET adresse == IF lines # <<>> THEN lines[1] ELSE <<>>
    IN  IF Len(lines) <= 1 THEN Address(adresse, <<>>, <<>>, <<>>)
        ELSE LET parts == Split(lines[2], "(")
             IN  IF Len(parts) < 2 THEN Address(adresse, Strip(parts[1]), <<>>, <<>>)
                 ELSE LET inner == Split(parts[2], ")")
                      IN  IF Len(inner) < 2
                          THEN Address(adresse, Strip(parts[1]), Strip(inner[1]), <<>>)
                          ELSE Address(adresse, Strip(parts[1]), Strip(inner[1]), Strip(inner[2]))

\* parse_ctq_result_with_vrac: its own copy of the same statements
address_fields_with_vrac(lines) ==
    LET adresse == IF lines # <<>> THEN lines[1] ELSE <<>>
    IN  IF Len(lines) <= 1 THEN Address(adresse, <<>>, <<>>, <<>>)
        ELSE LET parts == Split(lines[2], "(")
             IN  IF Len(parts) < 2 THEN Address(adresse, Strip(parts[1]), <<>>, <<>>)
                 ELSE LET inner == Split(parts[2], ")")
                      IN  IF Len(inner) < 2
                          THEN Address(adresse, Strip(parts[1]), Strip(inner[1]), <<>>)
                          ELSE Address(adresse, Strip(parts[1]), Strip(inner[1]), Strip(inner[2]))

\* the same detail page parsed on the direct branch and on the VRAC branch
call_address_fields ==
    /\ call.fn = "none"
    /\ \E lines \in AddressBlocks(MaxLineLen) :
           Returns([fn |-> "address_fields", lines |-> lines],
                   [direct |-> address_fields(lines), vrac |-> address_fields_with_vrac(lines)])

\* the address block parsed by the two terminal callbacks
SpecAddress == CallInit /\ [][call_address_fields]_vars

(***************************************************************************)
(* The URL and the view state of the detail POST (check_validity,          *)
(* parse_vrac_result).                                                     *)
(***************************************************************************)
\* most query parameters in the action of the validity page's form
MaxQuery == 2

\* a query string: its parameters in order, each a <<key, value>> pair
Queries == SeqsUpTo({"execution", "x"} \X {"e1s1", "e1s2"}, MaxQuery)

\* the view states a validity page may carry: none, an empty one, a token
ViewStates == {None, "", "e1s1", "e1s2", "e1s3"}

\* "execution=" in url
has_execution(query) == \E i \in 1..Len(query) : query[i][1] = "execution"

\* check_validity: the URL gets the execution key, appended when it has none,
\* substituted (re.sub, every occurrence) when it has one
with_execution(query, execution) ==
    IF ~has_execution(query) THEN Append(query, <<"execution", execution>>)
    ELSE [i \in 1..Len(query) |->
              IF query[i][1] = "execution" THEN <<"execution", execution>> ELSE query[i]]

\* the detail POST of the direct branch: URL and javax.faces.ViewState
detail_post(ctq_action, view_state) ==
    LET execution == redirect_execution(view_state)
    IN  [url |-> with_execution(ctq_action, execution),
         viewstate |-> extract_form_data([view_state |-> view_state], execution)]

\* the detail POST of the VRAC branch: check_validity puts the form action and
\* the payload in the meta of the VRAC POST, parse_vrac_result joins the
\* action to the host and posts the payload there
detail_post_after_vrac(ctq_action, view_state) ==
    LET execution == redirect_execution(view_state)
        ctq_formdata == extract_form_data([view_state |-> view_state], execution)
    IN  [url |-> ctq_action, viewstate |-> ctq_formdata]

call_detail_post ==
    /\ call.fn = "none"
    /\ \E ctq_action \in Queries, view_state \in ViewStates :
           Returns([fn |-> "detail_post", ctq_action |-> ctq_action, view_state |-> view_state],
                   detail_post(ctq_action, view_state))

call_detail_post_after_vrac ==
    /\ call.fn = "none"
    /\ \E ctq_action \in Queries, view_state \in ViewStates :
           Returns([fn |-> "detail_post_after_vrac", ctq_action |-> ctq_action,
                    view_state |-> view_state],
                   detail_post_after_vrac(ctq_action, view_state))

DetailPostNext == call_detail_post \/ call_detail_post_after_vrac

\* the detail POST built from a validity page, on either branch
SpecDetailPost == CallInit /\ [][DetailPostNext]_vars

(***************************************************************************)
(* The submitForm handler of the PECVL link (extract_form_data,            *)
(* extract_onclick_formdata).                                              *)
(***************************************************************************)
\* most rows in the parameter list of a handler
MaxRows == 2

\* the keys and the values a row of the handler may hold
RowKeys == {"leClientNo", "leDdrSeq", "other"}

RowValues == {"4007", ""}

\* a row after row.replace("'", "").split(","): one, two or three fields
HandlerRows ==
    {<<k>> : k \in RowKeys} \cup {<<k, v>> : k \in RowKeys, v \in RowValues}
        \cup {<<k, "4007", "x">> : k \in RowKeys}

\* the arguments before ",null,", split on ",": the form, then the target id
PreArgs == {<<"mainForm">>, <<"mainForm", "">>, <<"mainForm", "mainForm:t">>}

\* an onclick attribute: no anchor at all, or a text with or without
\* "submitForm(", a number of ",null," separators, the arguments before the
\* separator and the rows after it
NoOnclick == [present |-> FALSE, call |-> FALSE, nulls |-> 0, pre |-> <<"mainForm">>, rows |-> <<>>]

Onclicks ==
    {NoOnclick} \cup [present : {TRUE}, call : BOOLEAN, nulls : 0..2, pre : PreArgs,
                      rows : SeqsUpTo(HandlerRows, MaxRows)]

NoParams == [k \in {} |-> ""]

\* post.strip()[2:-2].split("],["): an empty list of rows splits into one
\* empty row
SplitRows(rows) == IF rows = <<>> THEN <<<<"">>>> ELSE rows

\* for row in rows: key, value = ...; params[key] = value.  A row that does
\* not have two fields raises; the rows before it are in params already.
RECURSIVE read_rows(_, _)
read_rows(rows, params) ==
    IF rows = <<>> THEN [params |-> params, raised |-> FALSE]
    ELSE IF Len(Head(rows)) # 2 THEN [params |-> params, raised |-> TRUE]
    ELSE read_rows(Tail(rows), (Head(rows)[1] :> Head(rows)[2]) @@ params)

\* the statements of the try block, with what params and target_id hold when
\* the block ends, normally or by an exception
parse_handler(onclick) ==
    IF ~onclick.call \/ onclick.nulls # 1 \/ Len(onclick.pre) < 2
    THEN [params |-> NoParams, target_id |-> None, raised |-> TRUE]
    ELSE LET r == read_rows(SplitRows(onclick.rows), NoParams)
         IN  [params |-> r.params, target_id |-> onclick.pre[2], raised |-> r.raised]

\* params.get(key, default)
Get(params, key, default) == IF key \in DOMAIN params THEN params[key] ELSE default

\* faulty variant: the parameters of the handler are copied into the payload
second_request_payload_with_params(onclick, view_state) ==
    LET p == IF ~onclick.present THEN [params |-> NoParams, target_id |-> None]
             ELSE parse_handler(onclick)
    IN  ("mainForm_SUBMIT" :> "1") @@ ("javax.faces.ViewState" :> view_state) @@ p.params

\* extract_form_data: except Exception: pass keeps params and target_id as
\* the try block left them; the payload is a dict literal of nine entries
second_request_payload(onclick, view_state) ==
    LET p == IF ~onclick.present THEN [params |-> NoParams, target_id |-> None]
             ELSE parse_handler(onclick)
    IN  ("mainForm_SUBMIT" :> "1")
        @@ ("javax.faces.ViewState" :> view_state)
        @@ ("leClientNo" :> Get(p.params, "leClientNo", "129540"))
        @@ ("leContexte" :> Get(p.params, "leContexte", "PECVL"))
        @@ ("leOrderBy" :> Get(p.params, "leOrderBy", ""))
        @@ ("leOrderDir" :> Get(p.params, "leOrderDir", ""))
        @@ ("leContexteEstDejaDetermine" :> Get(p.params, "leContexteEstDejaDetermine", "oui"))
        @@ ("leDdrSeq" :> Get(p.params, "leDdrSeq", "0"))
        @@ ("mainForm:_idcl" :> IF p.target_id \notin {None, ""} THEN p.target_id
                                ELSE "mainForm:j_id_z_7_2")

\* extract_onclick_formdata: an exception anywhere returns ({}, None); so does
\* a text without "submitForm(" and, by TypeError, a missing attribute
extract_onclick_formdata(onclick) ==
    IF ~onclick.present THEN [params |-> NoParams, target_id |-> None]
    ELSE LET p == parse_handler(onclick)
         IN  IF p.raised THEN [params |-> NoParams, target_id |-> None]
             ELSE [params |-> p.params, target_id |-> p.target_id]

call_extract_form_data ==
    /\ call.fn = "none"
    /\ \E onclick \in Onclicks, view_state \in {None, "v1"}, execution \in {None, "e1s2"} :
           Returns([fn |-> "extract_form_data", onclick |-> onclick,
                    view_state |-> view_state, execution |-> execution],
                   second_request_payload(onclick,
                       extract_form_data([view_state |-> view_state], execution)))

call_extract_onclick_formdata ==
    /\ call.fn = "none"
    /\ \E onclick \in Onclicks :
           Returns([fn |-> "extract_onclick_formdata", onclick |-> onclick],
                   extract_onclick_formdata(onclick))

OnclickNext == call_extract_form_data \/ call_extract_onclick_formdata

\* the two parsers of the submitForm handler, each called once
SpecOnclick == CallInit /\ [][OnclickNext]_vars

\* a response or a failure is delivered to a callback or to the errback
Responses ==
    \/ respond_parse_initial
    \/ respond_check_validity
    \/ respond_parse_vrac_result
    \/ respond_parse_ctq_result
    \/ respond_parse_ctq_result_with_vrac
    \/ handle_error

\* a run of ctq_scraper in which the engine keeps taking start requests and
\* every issued request eventually gets a response or a failure
FairInit ==
    /\ proxy_list \in FairPools
    /\ MiddlewareInit
    /\ CallIdle
    /\ CtqInit
    /\ SessionIdle
    /\ ReqIdle

SpecFair == FairInit /\ [][Next]_vars /\ WF_vars(start_requests) /\ WF_vars(Responses)

ReqSpiderInit ==
    /\ proxy_list \in ReqPools
    /\ MiddlewareInit
    /\ CallIdle
    /\ CtqIdle
    /\ SessionIdle
    /\ ReqInit

ReqNext ==
    \/ req_start_requests
    \/ respond_init_ctq_request
    \/ respond_parse_ctq_redirect
    \/ respond_req_parse_ctq_result
    \/ respond_init_rbq_request
    \/ respond_parse_rbq_redirect
    \/ respond_parse_rbq_result
    \/ req_errback

\* a run of req_scraper
SpecReq == ReqSpiderInit /\ [][ReqNext]_vars

(***************************************************************************)
(* Claims about the proxy pool (specification SpecPool).                   *)
(***************************************************************************)
\* the step is a call of process_request that returned pool entry p
Returned(p) ==
    /\ last'.op = "process_request"
    /\ last'.proxy = p
    /\ inflight' = [inflight EXCEPT ![p] = @ + 1]

\* the step is a process_response (op, status st) or process_exception
\* attributed to proxy p
Reported(op, p, st) ==
    /\ last'.op = op
    /\ last'.proxy = p
    /\ last'.status = st
    /\ inflight' = [inflight EXCEPT ![p] = @ - 1]

C3_FallbackResetsAndReturnsFirst ==
    /\ [](last.op # "hung")
    /\ [][(/\ last'.op \in {"process_request", "hung"}
           /\ last' # last \/ inflight' # inflight
           /\ Len(proxy_list) > 0
           /\ \A i \in 1..Len(proxy_list) :
                 \/ proxy_stats[proxy_list[i]].sleep_until > now
                 \/ proxy_stats[proxy_list[i]].consecutive_errors >= 3)
          => /\ \A q \in Range(proxy_list) :
                   /\ proxy_stats'[q].consecutive_errors = 0
                   /\ proxy_stats'[q].sleep_until = 0
             /\ last'.op = "process_request"
             /\ last'.proxy = proxy_list[1]
             /\ current_proxy_index' = 0
             /\ inflight' = [inflight EXCEPT ![proxy_list[1]] = @ + 1]]_vars

\* the fallback was taken in a pool of two entries while a request on entry 0
\* was in flight: every entry is reset and entry 0 is returned again
C3_Witness ==
    /\ last.op = "process_request"
    /\ last.reset
    /\ proxy_list = <<"p1", "p2">>
    /\ last.proxy = "p1"
    /\ current_proxy_index = 0
    /\ inflight["p1"] = 2
    /\ \A q \in {"p1", "p2"} : proxy_stats[q] = DefaultStats

C32_PoolStaysConsistent ==
    /\ proxy_list # <<>> => current_proxy_index \in 0..(Len(proxy_list) - 1)
    /\ \A p \in DOMAIN proxy_stats : proxy_stats[p].consecutive_errors >= 0
    /\ last.op # "hung"
    /\ (last.op = "process_request" /\ proxy_list # <<>>) => last.proxy \in Range(proxy_list)

\* two requests were in flight on the two entries of a pool; the response of
\* the one on the second entry was blocked and moved the cursor round to the
\* first entry while the other request is still in flight
C32_Witness ==
    /\ proxy_list = <<"p1", "p2">>
    /\ last.op = "process_response"
    /\ last.status = 503
    /\ last.proxy = "p2"
    /\ inflight["p1"] = 1
    /\ current_proxy_index = 0
    /\ proxy_stats["p2"].consecutive_errors = 1

\* C35: a proxy whose consecutive_errors has reached 3 is not returned by
\* get_available_proxy, also when its cooldown has expired, unless that call
\* resets the whole pool; its counter falls below 3 only by such a reset or by
\* a non-blocking response to a request that was in flight on it.
C35_ThreeErrorsOutliveCooldown ==
    [][\A p \in ProxyNames :
          p \in DOMAIN proxy_stats /\ proxy_stats[p].consecutive_errors >= 3 =>
              /\ Returned(p) => last'.reset
              /\ proxy_stats'[p].consecutive_errors < 3 =>
                    \/ last'.op = "process_request" /\ last'.reset
                    \/ /\ inflight[p] > 0
                       /\ \E st \in Statuses \ BlockingStatuses :
                              Reported("process_response", p, st)]_vars

\* a proxy has three errors and its cooldown is over, and a call has just
\* returned the other entry of the pool without a reset
C35_Witness ==
    /\ "p1" \in DOMAIN proxy_stats
    /\ proxy_stats["p1"].consecutive_errors >= 3
    /\ ~(proxy_stats["p1"].sleep_until > now)
    /\ last.op = "process_request"
    /\ last.proxy = "p2"
    /\ ~last.reset

(***************************************************************************)
(* Claims about ctq_scraper (specification Spec).                          *)
(***************************************************************************)
\* the number of requests of NEQ n that are scheduled or being downloaded
RECURSIVE CopiesOf(_, _)
CopiesOf(n, S) ==
    IF S = {} THEN 0
    ELSE LET r == CHOOSE x \in S : TRUE
         IN  (IF r.neq = n THEN CopiesIn(r, requests) ELSE 0) + CopiesOf(n, S \ {r})

InFlightOf(n) == CopiesOf(n, BagToSet(requests))

IsPrefix(s, t) == Len(s) <= Len(t) /\ \A i \in 1..Len(s) : s[i] = t[i]

VracChain == <<"parse_initial", "check_validity", "parse_vrac_result",
               "parse_ctq_result_with_vrac">>

DirectChain == <<"parse_initial", "check_validity", "parse_ctq_result">>

ItemsOf(n) == {i \in 1..Len(items) : items[i].src = n}

\* C1: the requests of one NEQ are issued in the order initial GET, search
\* POST, (VRAC POST,) detail POST; each one but the first is issued in the
\* step that consumes the response of the previous one; at most one request
\* of a NEQ is in flight at any time, whatever the other traversals do.
C1_SequentialTraversal ==
    /\ [](\A n \in Neqs :
             /\ InFlightOf(n) <= 1
             /\ IsPrefix(issued[n], VracChain) \/ IsPrefix(issued[n], DirectChain))
    /\ [][\A n \in Neqs :
             (issued'[n] # issued[n] /\ issued[n] # <<>>)
                 => \E req \in BagToSet(requests) :
                       /\ req.neq = n
                       /\ req.callback = issued[n][Len(issued[n])]
                       /\ issued'[n] = Append(issued[n], issued'[n][Len(issued'[n])])
                       /\ CopiesIn(req, requests') = CopiesIn(req, requests) - 1]_vars

\* one traversal has gone through the whole VRAC chain and waits for its
\* detail page while the other traversal waits for its validity page
C1_Witness ==
    /\ issued["n1"] = VracChain
    /\ InFlightOf("n1") = 1
    /\ issued["n2"] = <<"parse_initial", "check_validity">>
    /\ InFlightOf("n2") = 1

\* C7: when the validity page has no form action, or has the "Erreur(s)"
\* marker, or displays another NEQ than the requested one, the lookup ends:
\* no further request is issued for the NEQ and no record is emitted for it.
C7_TerminalValidityEndsLookup ==
    \A n \in Neqs :
        validity[n] \in {"no form action", "erreur", "mismatch"}
            => /\ issued[n] = <<"parse_initial", "check_validity">>
               /\ InFlightOf(n) = 0
               /\ ItemsOf(n) = {}

\* one lookup ended on the "Erreur(s)" marker, one on a NEQ mismatch, and the
\* run is over
C7_Witness ==
    /\ validity["n1"] = "erreur"
    /\ validity["n2"] = "mismatch"
    /\ neqs = <<>>
    /\ requests = EmptyBag

\* C8: the search POST of a NEQ is issued only after a landing page with
\* status 200, the mainForm form and a view-state token; otherwise the lookup
\* ends with no further request and no record.
C8_SearchOnlyAfterGoodLanding ==
    \A n \in Neqs :
        /\ (\E i \in 1..Len(issued[n]) : issued[n][i] = "check_validity")
              => landing[n] = "ok"
        /\ landing[n] = "ok" => Len(issued[n]) >= 2 /\ issued[n][2] = "check_validity"
        /\ landing[n] = "bad"
              => /\ issued[n] = <<"parse_initial">>
                 /\ InFlightOf(n) = 0
                 /\ ItemsOf(n) = {}

\* one lookup ended on its landing page, the other one got a good landing
\* page and its search POST is in flight
C8_Witness ==
    /\ landing["n1"] = "bad"
    /\ landing["n2"] = "ok"
    /\ InFlightOf("n2") = 1
    /\ issued["n2"] = <<"parse_initial", "check_validity">>

\* C9: for a validity page that passes the checks exactly one branch is
\* taken: the VRAC POST if and only if the VRAC anchor carries an onclick
\* handler, otherwise the detail POST; never both and never neither.
C9_ExactlyOneBranch ==
    \A n \in Neqs :
        /\ validity[n] = "vrac"
              => issued[n] \in {<<"parse_initial", "check_validity", "parse_vrac_result">>,
                                VracChain}
        /\ validity[n] = "direct" => issued[n] = DirectChain
        /\ (\E i \in 1..Len(issued[n]) : issued[n][i] = "parse_vrac_result")
              => validity[n] = "vrac"
        /\ (\E i \in 1..Len(issued[n]) : issued[n][i] = "parse_ctq_result")
              => validity[n] = "direct"

\* both branches taken in one run: the VRAC POST of one NEQ and the direct
\* detail POST of the other are in flight
C9_Witness ==
    /\ validity["n1"] = "vrac"
    /\ validity["n2"] = "direct"
    /\ InFlightOf("n1") = 1
    /\ InFlightOf("n2") = 1
    /\ Len(issued["n1"]) = 3

VracFields(item) ==
    <<item.vrac_numero_inscription, item.vrac_region_exploitation,
      item.vrac_nombre_camions, item.vrac_nom_courtier>>

C11_VracKeysPresentAndBranchOnly ==
    \A i \in 1..Len(items) :
        /\ VracKeys \subseteq DOMAIN items[i]
        /\ (\E k \in VracKeys : items[i][k] # "")
              => /\ validity[items[i].src] = "vrac"
                 /\ \E j \in 1..Len(issued[items[i].src]) :
                       issued[items[i].src][j] = "parse_vrac_result"

\* a record of the direct branch with the four keys, all empty, next to a
\* record of the VRAC branch whose four fields are all populated
C11_Witness ==
    \E i, j \in 1..Len(items) :
        /\ items[i].via = "parse_ctq_result"
        /\ VracKeys \subseteq DOMAIN items[i]
        /\ \A k \in VracKeys : items[i][k] = ""
        /\ items[j].via = "parse_ctq_result_with_vrac"
        /\ \A k \in VracKeys : items[j][k] # ""

\* C12: the VRAC fields and the extra_values of the record of NEQ n are
\* exactly the VRAC values read on the VRAC page of n and the extra values
\* read on the validity page of n, under every interleaving of traversals;
\* vrac_numero_inscription is the first cell of the VRAC table of n and no
\* field holds a value of another NEQ's pages.
C12_RecordCarriesOwnPages ==
    \A i \in 1..Len(items) :
        LET n == items[i].src
        IN  /\ items[i].extra_values = extras[n]
            /\ items[i].extra_values \in {"", "extra-" \o n}
            /\ items[i].via = "parse_ctq_result_with_vrac"
                  => /\ VracFields(items[i]) = vrac_table[n]
                     /\ items[i].vrac_numero_inscription = vrac_table[n][1]
                     /\ items[i].vrac_numero_inscription \in {"", Cell(TRUE, n, "1")}

\* the traversals of two NEQs interleaved on the VRAC branch: both records
\* are emitted, each with its own first cell and its own extra values
C12_Witness ==
    /\ Len(items) = 2
    /\ items[1].src # items[2].src
    /\ \A i \in 1..2 :
          /\ items[i].via = "parse_ctq_result_with_vrac"
          /\ items[i].vrac_numero_inscription = Cell(TRUE, items[i].src, "1")
          /\ items[i].extra_values = "extra-" \o items[i].src

Done(n) ==
    /\ n \notin Range(neqs)
    /\ issued[n] # <<>>
    /\ InFlightOf(n) = 0

Traversals(n) == Cardinality({i \in 1..Len(issued[n]) : issued[n][i] = "parse_initial"})

\* C17: every request of the traversal of a NEQ carries the cookie-jar id
\* jar-<neq>, whatever its step; two requests carry the same jar id exactly
\* when they belong to the same NEQ; and a NEQ is traversed at most once in
\* a run, so no jar id serves more than one traversal.
C17_OneJarPerTraversal ==
    /\ \A req \in BagToSet(requests) : req.cookiejar = "jar-" \o req.neq
    /\ \A r1, r2 \in BagToSet(requests) : (r1.cookiejar = r2.cookiejar) <=> (r1.neq = r2.neq)
    /\ \A n \in Neqs : Traversals(n) <= 1 /\ InFlightOf(n) <= 1

\* the traversals of two NEQs are both past their first step, one at its
\* last request, each with its own jar
C17_Witness ==
    \E r1, r2 \in BagToSet(requests) :
        /\ r1.neq = "n1" /\ r1.callback = "parse_ctq_result_with_vrac"
        /\ r1.cookiejar = "jar-n1"
        /\ r2.neq = "n2" /\ r2.callback = "check_validity"
        /\ r2.cookiejar = "jar-n2"

\* the view states a POST of the validity page of NEQ n may carry
ValidityTokens(n) == {"validity-" \o n, "e1s2"}

\* C27: every POST carries a non-empty javax.faces.ViewState: the search POST
\* the token of the landing page of the same NEQ; the VRAC POST and the
\* detail POST the token of the validity page of the same NEQ, or "e1s2" when
\* that page has none; and the detail POST of the VRAC branch carries the
\* payload that check_validity built before the VRAC POST.
C27_ViewStateOfEveryPost ==
    /\ [](\A req \in BagToSet(requests) :
            /\ req.callback # "parse_initial" => req.viewstate \notin {None, ""}
            /\ req.callback = "check_validity" => req.viewstate = "landing-" \o req.neq
            /\ req.callback \in {"parse_vrac_result", "parse_ctq_result",
                                 "parse_ctq_result_with_vrac"} =>
                   req.viewstate \in ValidityTokens(req.neq)
            /\ req.callback = "parse_vrac_result" => req.ctq_formdata = req.viewstate)
    /\ [][\A new \in BagToSet(requests') \ BagToSet(requests) :
            new.callback = "parse_ctq_result_with_vrac" =>
                \E req \in BagToSet(requests) \ BagToSet(requests') :
                    /\ req.callback = "parse_vrac_result"
                    /\ req.neq = new.neq
                    /\ new.viewstate = req.ctq_formdata]_vars

\* a detail POST of the VRAC branch with the token of its validity page, and
\* a VRAC POST of the other NEQ with the fallback
C27_Witness ==
    \E r1, r2 \in BagToSet(requests) :
        /\ r1.neq = "n1" /\ r1.callback = "parse_ctq_result_with_vrac"
        /\ r1.viewstate = "validity-n1"
        /\ r2.neq = "n2" /\ r2.callback = "parse_vrac_result"
        /\ r2.viewstate = "e1s2" /\ r2.ctq_formdata = "e1s2"

\* the lookup of NEQ n is over and has given no record
EndedWithoutRecord(n) == issued[n] # <<>> /\ InFlightOf(n) = 0 /\ ItemsOf(n) = {}

\* the step that ended the lookup of n reported it: a warning or an error
\* entry (handle_error counts the error where it writes its entry).  The info
\* entry a callback writes when it is entered does not tell an ending from a
\* page that was accepted.
Traced(n) == logged[n] \cap {"warning", "error"} # {}

C30_OtherEndings ==
    \A n \in Neqs :
        (EndedWithoutRecord(n) /\ validity[n] \notin {"no form action", "erreur", "mismatch"}) =>
            Traced(n)

\* the requests a step adds to the scheduled ones
NewRequests == BagToSet(requests') \ BagToSet(requests)

DetailCallbacks == {"parse_ctq_result", "parse_ctq_result_with_vrac"}

\* the requests a step takes from the scheduled ones
Consumed == BagToSet(requests) \ BagToSet(requests')

\* C33: the traversal of one NEQ issues at most four requests, at most three
\* when it does not take the VRAC branch, and emits at most one record; a
\* record is emitted only by a callback of the detail POST, in the step that
\* receives a detail response with status 200 (the step logs no warning); and
\* a response that a callback reports with a warning, as every non-200
\* response is, ends the traversal: no follow-up request, no record.
C33_BoundedTraversalOneRecord ==
    /\ [](\A n \in Neqs :
            /\ Len(issued[n]) <= 4
            /\ validity[n] # "vrac" => Len(issued[n]) <= 3
            /\ Cardinality(ItemsOf(n)) <= 1)
    /\ [](\A i \in 1..Len(items) : items[i].via \in DetailCallbacks)
    /\ [][items' # items =>
            \E req \in Consumed :
                /\ req.callback \in DetailCallbacks
                /\ logged'[req.neq] = {"info"}
                /\ Len(items') = Len(items) + 1
                /\ items'[Len(items')].src = req.neq]_vars
    /\ [][\A req \in Consumed :
            "warning" \in logged'[req.neq] =>
                /\ items' = items
                /\ InFlightOf(req.neq)' = 0
                /\ issued'[req.neq] = issued[req.neq]]_vars

\* one traversal went through its four requests and gave its record; the
\* other was ended by a transient status at its third request
C33_Witness ==
    /\ Len(issued["n1"]) = 4
    /\ Cardinality(ItemsOf("n1")) = 1
    /\ items[1].via = "parse_ctq_result_with_vrac"
    /\ Len(issued["n2"]) = 3
    /\ failed["n2"] = "status"
    /\ "warning" \in logged["n2"]
    /\ InFlightOf("n2") = 0
    /\ ItemsOf("n2") = {}

\* C34: parse_vrac_result is only ever reached with a non-empty ctq_action in
\* the meta of its request, so its fallback branch, which emits a record of
\* VRAC data only, is never taken, and every VRAC response with status 200
\* is followed by the detail POST of the same NEQ.
C34_VracFallbackNeverTaken ==
    /\ [](\A req \in BagToSet(requests) :
            req.callback = "parse_vrac_result" => req.ctq_action \notin {None, ""})
    /\ [](\A i \in 1..Len(items) : items[i].via # "parse_vrac_result")
    /\ [][\A req \in Consumed :
            (req.callback = "parse_vrac_result" /\ logged'[req.neq] = {"info"}) =>
                \E new \in NewRequests :
                    /\ new.neq = req.neq
                    /\ new.callback = "parse_ctq_result_with_vrac"
                    /\ items' = items]_vars

\* a VRAC response with status 200 has been followed by the detail POST
C34_Witness ==
    \E req \in BagToSet(requests) :
        /\ req.neq = "n1"
        /\ req.callback = "parse_ctq_result_with_vrac"
        /\ logged["n1"] = {"info"}
        /\ vrac_table["n1"][1] = "vrac1-n1"
        /\ req.vrac_data.vrac_numero_inscription = "vrac1-n1"

\* C38 as stated: the neq field of every record emitted by ctq_scraper equals
\* the NEQ of the traversal that produced it, whatever the detail page displays.
C38_Original ==
    \A i \in 1..Len(items) : items[i].neq = items[i].src

(***************************************************************************)
(* Claims about the NEQ generator (specification SpecIter).                *)
(***************************************************************************)
\* the values given to _iter_neq_values, in source order: inline, then file
SourceValues == NonEmpty(args.pieces) \o args.file_neqs

\* position of the first occurrence of v in s
FirstIndex(s, v) == CHOOSE i \in 1..Len(s) : s[i] = v /\ \A j \in 1..(i - 1) : s[j] # v

\* the start NEQ the generator resumes from, None when none applies
ResumeFrom == StartNeqClean(NonEmpty(args.pieces), args.file_neqs, args.start_neq)

\* C19: the generator yields no value twice; every value it yields is a
\* non-empty value of the input; the values come in the order of their first
\* occurrence in the input read inline values first, file values second, so
\* a later occurrence of a value, in either source, yields nothing; and every
\* distinct value of the input is yielded, except those whose first
\* occurrence precedes the start NEQ when one is given and found.
C19_DistinctInFirstOccurrenceOrder ==
    args.recorded =>
        /\ \A i, j \in 1..Len(neqs) : i < j => neqs[i] # neqs[j]
        /\ \A i \in 1..Len(neqs) : neqs[i] # "" /\ neqs[i] \in Range(SourceValues)
        /\ \A i, j \in 1..Len(neqs) :
               i < j => FirstIndex(SourceValues, neqs[i]) < FirstIndex(SourceValues, neqs[j])
        /\ Range(neqs) =
               {v \in Range(SourceValues) :
                    \/ ResumeFrom = None
                    \/ FirstIndex(SourceValues, v) >= FirstIndex(SourceValues, ResumeFrom)}

\* a value repeated in the inline list and again in the file, and a file
\* value that is new: the generator has yielded each once, inline one first
C19_Witness ==
    /\ args.recorded
    /\ args.pieces = <<"n2", "n2">>
    /\ args.file_neqs = <<"n1", "n2">>
    /\ args.start_neq = None
    /\ neqs = <<"n2", "n1">>

\* the deduplicated input: what the generator yields when no start NEQ is given
Deduplicated == _iter_neq_values(NonEmpty(args.pieces), args.file_neqs, None)

\* C21: with a start NEQ that occurs in the inline values or in the file,
\* the spider is left with exactly the part of the deduplicated input that
\* begins at the start NEQ (included) and with nothing that precedes it;
\* with a start NEQ that occurs in no source, or with none, it is left with
\* the whole deduplicated input.
C21_ResumeFromStartNeq ==
    args.recorded =>
        IF args.start_neq # None /\ args.start_neq \in Range(SourceValues)
        THEN \E k \in 1..Len(Deduplicated) :
                 /\ Deduplicated[k] = args.start_neq
                 /\ neqs = SubSeq(Deduplicated, k, Len(Deduplicated))
        ELSE neqs = Deduplicated

\* the start NEQ occurs in the file only, after a value that the inline list
\* and the file both name: the run resumes at the start NEQ
C21_Witness ==
    /\ args = Args(<<"n1">>, <<"n1", "n2">>, "n2", TRUE)
    /\ neqs = <<"n2">>

(***************************************************************************)
(* Claims about get_proxy_creds (specification SpecCreds).                 *)
(***************************************************************************)
\* the entry of the last call of get_proxy_creds
Entry == call.list[1]

\* no field of the entry, split on c, holds a separator
PlainFields(e, c) == \A i \in 1..Len(Split(e, c)) : Count(Split(e, c)[i], ":") + Count(Split(e, c)[i], ",") = 0

\* the entry is made of n fields separated by c, none holding a separator
Layout(e, c, n) == Len(Split(e, c)) = n /\ PlainFields(e, c)

\* the i-th field of the entry split on c, trimmed
Field(e, c, i) == Strip(Split(e, c)[i])

\* C22 as stated: an entry of four plain fields yields the credential
\* (ip:port, user, pass) whichever of ':' and ',' separates them; an entry of
\* two plain fields yields the address ip:port and no credentials, whichever
\* the separator; an entry that has neither two nor four fields under either
\* separator yields itself as the address and no credentials; the address of
\* a pool entry is never empty.
C22_Original ==
    (call.fn = "get_proxy_creds" /\ call.list # <<>>) =>
        /\ \A c \in {":", ","} :
               /\ Layout(Entry, c, 4) =>
                      result = Creds(Field(Entry, c, 1) \o <<":">> \o Field(Entry, c, 2),
                                     Field(Entry, c, 3), Field(Entry, c, 4))
               /\ Layout(Entry, c, 2) =>
                      result = Creds(Field(Entry, c, 1) \o <<":">> \o Field(Entry, c, 2),
                                     <<>>, <<>>)
        /\ (\A c \in {":", ","} : Len(Split(Entry, c)) \notin {2, 4}) =>
               result = Creds(Entry, <<>>, <<>>)
        /\ result.ip # <<>>

\* C39 as stated: for every pool entry in the colon layout, in the comma
\* layout or of two fields, ctq_scraper's get_proxy_creds, req_scraper's
\* get_proxy_creds and the middleware's process_request derive the same proxy
\* address and the same credentials.
C39_Original ==
    (call.fn = "proxy parsers"
        /\ \E c \in {":", ","}, n \in {2, 4} : Layout(Entry, c, n))
       => /\ result.ctq = result.req
          /\ result.req = result.middleware

\* what the three parsers share: req_scraper and the middleware agree on every
\* entry, and ctq_scraper agrees with them on a colon entry of four fields
\* without whitespace
C39_ColonLayoutAgrees ==
    call.fn = "proxy parsers"
       => /\ result.req = result.middleware
          /\ (Layout(Entry, ":", 4) /\ Count(Entry, " ") = 0)
                => result.ctq = result.req

(***************************************************************************)
(* Claims about the enrichment (specification SpecEnrich).                 *)
(***************************************************************************)
\* ^\+\d{8,15}$
E164(p) ==
    /\ Len(p) \in 9..16
    /\ p[1] = "+"
    /\ \A i \in 2..Len(p) : p[i] = "1"

\* C23 as stated: a record that went through enrichment is emitted exactly
\* when its phone is empty or is '+' followed by 8 to 15 digits, and the
\* phone it carries is the one the gateway returned.
C23_Original ==
    (call.fn = "process_item" /\ result.enriched) =>
        /\ result.emitted <=> (result.phone = <<>> \/ E164(result.phone))
        /\ result.phone = call.phone

\* C24 as stated: when enrich_company raises for a record, the record is
\* still emitted by the pipeline, and a batch run is not left: it goes on to
\* the records after the failing one.
C24_Original ==
    /\ (call.fn = "process_item" /\ call.enabled /\ call.ends # "returns")
           => result.emitted
    /\ (call.fn \in {"process_csv_file", "enrich_ai_test_rows"}
            /\ \E i \in DOMAIN call.ends : call.ends[i] # "returns")
           => ~result.aborted

(***************************************************************************)
(* Claims about the address block (specification SpecAddress).             *)
(***************************************************************************)
\* position of the only occurrence of character c in line l
Position(l, c) == CHOOSE i \in 1..Len(l) : l[i] = c

\* the line has the shape "City (Province) PostalCode": one opening
\* parenthesis, one closing parenthesis after it
CityProvincePostal(l) ==
    /\ Count(l, "(") = 1
    /\ Count(l, ")") = 1
    /\ Position(l, "(") < Position(l, ")")

\* C25: for a block of two lines whose second line has the shape
\* "City (Province) PostalCode", both terminal callbacks yield adresse = the
\* first line, ville = the text before '(', province = the text between '('
\* and ')', code_postal = the text after ')', each trimmed.
C25_AddressSplitOnParentheses ==
    (call.fn = "address_fields" /\ Len(call.lines) = 2 /\ CityProvincePostal(call.lines[2])) =>
        LET l == call.lines[2]
            open == Position(l, "(")
            close == Position(l, ")")
            expected == Address(call.lines[1],
                                Strip(SubSeq(l, 1, open - 1)),
                                Strip(SubSeq(l, open + 1, close - 1)),
                                Strip(SubSeq(l, close + 1, Len(l))))
        IN  result.direct = expected /\ result.vrac = expected

\* a second line with a city, a province and a postal code that differ
C25_Witness ==
    /\ call.fn = "address_fields"
    /\ call.lines = <<<<"b", " ", "a">>, <<"a", " ", "(", "b", ")", " ", "a">>>>
    /\ result.direct = Address(<<"b", " ", "a">>, <<"a">>, <<"b">>, <<"a">>)
    /\ result.vrac = result.direct

(***************************************************************************)
(* Claims about the detail POST (specification SpecDetailPost).            *)
(***************************************************************************)
\* the values of the execution parameters of a query string
ExecutionParams(query) == {query[i][2] : i \in {j \in 1..Len(query) : query[j][1] = "execution"}}

\* C26 as stated: the URL of the detail POST has its execution parameter
\* equal to the view state of the POST's payload, on both branches.
C26_Original ==
    call.fn \in {"detail_post", "detail_post_after_vrac"} =>
        ExecutionParams(result.url) = {result.viewstate}

\* the part of C26 that holds: the direct branch
C26_DirectBranch ==
    call.fn = "detail_post" => ExecutionParams(result.url) = {result.viewstate}

(***************************************************************************)
(* Claims about the submitForm handler (specification SpecOnclick).        *)
(***************************************************************************)
NineKeys ==
    {"mainForm_SUBMIT", "javax.faces.ViewState", "leClientNo", "leContexte", "leOrderBy",
     "leOrderDir", "leContexteEstDejaDetermine", "leDdrSeq", "mainForm:_idcl"}

\* the defaults of the keys that may come from the handler
Defaults ==
    ("leClientNo" :> "129540") @@ ("leContexte" :> "PECVL") @@ ("leOrderBy" :> "")
    @@ ("leOrderDir" :> "") @@ ("leContexteEstDejaDetermine" :> "oui") @@ ("leDdrSeq" :> "0")

DefaultTarget == "mainForm:j_id_z_7_2"

\* the handler parses without an exception: "submitForm(" is there, one
\* ",null," separator, a second argument, and every row has two fields
Parses(onclick) ==
    /\ onclick.present
    /\ onclick.call /\ onclick.nulls = 1 /\ Len(onclick.pre) >= 2
    /\ onclick.rows # <<>>
    /\ \A i \in 1..Len(onclick.rows) : Len(onclick.rows[i]) = 2

\* the values the rows of the handler give to key k
RowValuesOf(onclick, k) ==
    {onclick.rows[i][2] : i \in {j \in 1..Len(onclick.rows) :
                                    Len(onclick.rows[j]) = 2 /\ onclick.rows[j][1] = k}}

\* the value of the last row of the handler with key k
LastValue(onclick, k) ==
    LET at == {j \in 1..Len(onclick.rows) : onclick.rows[j][1] = k}
    IN  onclick.rows[CHOOSE j \in at : \A i \in at : i <= j][2]

\* C28: extract_form_data always returns exactly the nine keys; mainForm_SUBMIT
\* is "1"; each of the six le* keys holds a value parsed from the handler or its
\* default, the target a parsed id or its default; when the handler parses, a
\* key has the value of its row if it has one and its default otherwise; no
\* other key of the handler is copied.
C28_NineKeysFromHandlerOrDefaults ==
    call.fn = "extract_form_data" =>
        /\ DOMAIN result = NineKeys
        /\ result["mainForm_SUBMIT"] = "1"
        /\ result["javax.faces.ViewState"] \in {call.execution, call.view_state, "1"} \ {None}
        /\ \A k \in DOMAIN Defaults :
              result[k] \in {Defaults[k]} \cup
                            (IF ~call.onclick.present THEN {} ELSE RowValuesOf(call.onclick, k))
        /\ result["mainForm:_idcl"] \in {DefaultTarget} \cup
                            (IF ~call.onclick.present THEN {} ELSE {call.onclick.pre[Len(call.onclick.pre)]})
        /\ Parses(call.onclick) =>
              /\ \A k \in DOMAIN Defaults :
                    result[k] = IF RowValuesOf(call.onclick, k) = {} THEN Defaults[k]
                                ELSE LastValue(call.onclick, k)
              /\ result["mainForm:_idcl"] = IF call.onclick.pre[2] = "" THEN DefaultTarget
                                            ELSE call.onclick.pre[2]

\* a handler with a client number, a key the payload does not have, and a
\* target of its own
C28_Witness ==
    /\ call.fn = "extract_form_data"
    /\ call.onclick.present
    /\ Parses(call.onclick)
    /\ call.onclick.rows = <<<<"leClientNo", "4007">>, <<"other", "4007">>>>
    /\ result["leClientNo"] = "4007"
    /\ result["leDdrSeq"] = "0"
    /\ result["mainForm:_idcl"] = "mainForm:t"

\* the payload with every default
AllDefaults(view_state) ==
    ("mainForm_SUBMIT" :> "1") @@ ("javax.faces.ViewState" :> view_state)
    @@ Defaults @@ ("mainForm:_idcl" :> DefaultTarget)

\* C29 as stated: when the parse of the handler raises, at whatever point,
\* extract_form_data returns the payload with every default and
\* extract_onclick_formdata returns no parameters and no target.
C29_Original ==
    (call.fn \in {"extract_form_data", "extract_onclick_formdata"}
        /\ call.onclick.present /\ ~Parses(call.onclick)) =>
        IF call.fn = "extract_form_data"
        THEN result = AllDefaults(result["javax.faces.ViewState"])
        ELSE result = [params |-> NoParams, target_id |-> None]

\* the part of C29 that holds: extract_onclick_formdata
C29_OnclickFormdata ==
    (call.fn = "extract_onclick_formdata" /\ call.onclick.present /\ ~Parses(call.onclick)) =>
        result = [params |-> NoParams, target_id |-> None]

C13_Original ==
    \A req \in BagToSet(req_requests) : req.resubmits <= RETRY_TIMES

\* C15 as stated: a request marked dont_retry = True is never resubmitted
\* after it fails.
C15_Original ==
    [][\A req \in BagToSet(req_requests) :
          req.dont_retry
             => \A again \in BagToSet(req_requests') :
                   (again.neq = req.neq /\ again.callback = req.callback)
                      => again.resubmits = req.resubmits]_vars

\* the callbacks of the RBQ check, the only ones that yield records
RbqCallbacks == {"parse_rbq_redirect", "parse_rbq_result"}

\* C36: req_scraper emits a record for a NEQ only if its CTQ result or its RBQ
\* result is "Yes": no emitted record has CTQ = "No" and RBQ = "No".  A record
\* is emitted once per traversal: the step that emits it consumes the
\* traversal's request of the RBQ check, carries its NEQ and CTQ result, and
\* leaves no request behind, and the traversals not yet started, in flight and
\* recorded never outnumber the NEQs given to the run.
C36_RecordOnlyWithAYes ==
    /\ [](\A i \in 1..Len(req_items) :
             req_items[i].RBQ = "Yes" \/ req_items[i].CTQ = "Yes")
    /\ [](Len(neq_list) + BagCardinality(req_requests) + Len(req_items) <= MaxNeqList)
    /\ [][req_items' # req_items
            => \E req \in BagToSet(req_requests), rbq \in {"Yes", "No"} :
                  /\ req.callback \in RbqCallbacks
                  /\ req_items' = Append(req_items, ReqRecord(req.neq, rbq, req.ctq_result))
                  /\ req_requests' = req_requests (-) SetToBag({req})]_vars

\* a run that ended with a record of each kind: RBQ only and CTQ only
C36_Witness ==
    /\ neq_list = <<>>
    /\ req_requests = EmptyBag
    /\ \E i, j \in 1..Len(req_items) :
          /\ req_items[i].RBQ = "Yes" /\ req_items[i].CTQ = "No"
          /\ req_items[j].RBQ = "No" /\ req_items[j].CTQ = "Yes"

\* the callbacks of the CTQ check that are given a page of the registry
CtqCallbacks == {"parse_ctq_redirect", "req_parse_ctq_result"}

\* the callbacks of the RBQ check
RbqStage == {"init_rbq_request"} \cup RbqCallbacks

\* the step takes a copy of req out of the scheduler
Taken(req) == CopiesIn(req, req_requests') < CopiesIn(req, req_requests)

\* the step puts a copy of req into the scheduler
Gained(req) == CopiesIn(req, req_requests') > CopiesIn(req, req_requests)

\* the follow-up the CTQ outcome calls for: the result page when the redirect
\* page has a form action, else the RBQ check, with "Yes" for a match only
FollowUp(req, outcome, new) ==
    /\ new.neq = req.neq
    /\ new.callback = IF outcome = "form action" THEN "req_parse_ctq_result"
                      ELSE "init_rbq_request"
    /\ new.ctq_result = IF outcome = "form action" THEN None
                        ELSE IF outcome = "match" THEN "Yes"
                        ELSE "No"

\* C37: whatever a CTQ page of req_scraper shows (no form action on the
\* redirect page, the "Erreur(s)" marker, another NEQ, the NEQ searched), the
\* callback given that page yields the next request of the same NEQ, which is
\* the RBQ check unless the redirect page leads to the result page, with
\* CTQ = "Yes" only for a result page that shows the NEQ searched and no error
\* marker; once a traversal is in its RBQ check, the requests that follow are
\* requests of the RBQ check with the same NEQ and CTQ result.
C37_CtqAlwaysLeadsToRbq ==
    [][\A req \in BagToSet(req_requests) :
          Taken(req)
             => /\ (req.callback \in CtqCallbacks /\ req_total_requests' # req_total_requests)
                      => /\ ctq_outcome' \in IF req.callback = "parse_ctq_redirect"
                                              THEN {"form action", "no form action"}
                                              ELSE {"erreur", "mismatch", "match"}
                         /\ \E new \in BagToSet(req_requests') : Gained(new)
                         /\ \A new \in BagToSet(req_requests') :
                               Gained(new) => FollowUp(req, ctq_outcome', new)
                /\ req.callback \in RbqStage
                      => \A new \in BagToSet(req_requests') :
                            Gained(new) => /\ new.callback \in RbqStage
                                           /\ new.neq = req.neq
                                           /\ new.ctq_result = req.ctq_result]_vars

\* a result page that showed another NEQ was followed by the RBQ check with
\* CTQ "No", while the RBQ check of a traversal with CTQ "Yes" is under way
C37_Witness ==
    /\ ctq_outcome = "mismatch"
    /\ \E a, b \in BagToSet(req_requests) :
          /\ a.callback = "init_rbq_request" /\ a.ctq_result = "No"
          /\ b.callback \in RbqStage /\ b.ctq_result = "Yes"

====
